---- MODULE Spec2Model ----
(***************************************************************************)
(* Tab Sorter extension: the extraction-and-sort pipeline.                 *)
(*                                                                         *)
(*   getTargetTabs -> extractValuesFromTabs -> createComparator/stableSort *)
(*   -> moveTabs                                                           *)
(*                                                                         *)
(* Strings of the program are sequences of one-character strings, so that  *)
(* trimming, matching and parsing are computed and not assumed.           *)
(* Numbers produced by parseFloat are fixed-point integers scaled by       *)
(* 10^FracDigits (the sample texts carry at most FracDigits decimals).     *)
(***************************************************************************)
EXTENDS Integers, Sequences, FiniteSets, TLC

(***************************************************************************)
(* Bounds of the model.                                                    *)
(***************************************************************************)
\* decimals kept by the fixed-point representation of a parsed number
FracDigits == 3
\* largest number of tabs of the window in the pipeline specification
MaxTabs == 3
\* largest number of tabs handed to the comparator specification
MaxSortTabs == 3
\* largest number of tabs handed to extractValuesFromTabs alone
MaxBatchTabs == 3
\* largest number of tabs the user closes during one invocation
MaxClosed == 1
\* longest text handed to parseValue alone
MaxTextLen == 5
\* largest number of unloaded tabs handed to handleLoadUnloadedTabs
MaxUnloaded == 7

(***************************************************************************)
(* Program constants (src/src/config/constants.ts).                        *)
(***************************************************************************)
CONCURRENT_INJECTIONS == 8
TAB_EXTRACTION == 5000
GLOBAL_EXTRACTION == 20000
TAB_LOAD_BATCH_SIZE == 3

(***************************************************************************)
(* Characters and strings.                                                 *)
(***************************************************************************)
Digits == {"0", "1", "2", "3", "4", "5", "6", "7", "8", "9"}

DigitVal(c) ==
  CASE c = "0" -> 0 [] c = "1" -> 1 [] c = "2" -> 2 [] c = "3" -> 3
    [] c = "4" -> 4 [] c = "5" -> 5 [] c = "6" -> 6 [] c = "7" -> 7
    [] c = "8" -> 8 [] c = "9" -> 9

RECURSIVE Pow10(_)
Pow10(n) == IF n = 0 THEN 1 ELSE 10 * Pow10(n - 1)

Scale == Pow10(FracDigits)

\* String.prototype.trim over the model's alphabet (the only white space is " ")
RECURSIVE TrimLeft(_)
TrimLeft(s) ==
  IF s # <<>> /\ Head(s) = " " THEN TrimLeft(Tail(s)) ELSE s

RECURSIVE TrimRight(_)
TrimRight(s) ==
  IF s # <<>> /\ s[Len(s)] = " " THEN TrimRight(SubSeq(s, 1, Len(s) - 1)) ELSE s

Trim(s) == TrimRight(TrimLeft(s))

\* String.prototype.toLowerCase over the model's alphabet
LowerChar(c) ==
  CASE c = "A" -> "a" [] c = "B" -> "b" [] c = "I" -> "i"
    [] c = "S" -> "s" [] c = "T" -> "t" [] OTHER -> c

ToLowerCase(s) == [i \in 1..Len(s) |-> LowerChar(s[i])]

\* the characters of s that belong to keep, in order: s.replace(/[^keep]/g, '')
RECURSIVE KeepChars(_, _)
KeepChars(s, keep) ==
  IF s = <<>> THEN <<>>
  ELSE IF Head(s) \in keep THEN <<Head(s)>> \o KeepChars(Tail(s), keep)
  ELSE KeepChars(Tail(s), keep)

\* s.replace(c, ''): a string pattern replaces the FIRST occurrence only
RECURSIVE RemoveFirst(_, _)
RemoveFirst(s, c) ==
  IF s = <<>> THEN <<>>
  ELSE IF Head(s) = c THEN Tail(s)
  ELSE <<Head(s)>> \o RemoveFirst(Tail(s), c)

\* the longest prefix of s made of characters of set
RECURSIVE PrefixIn(_, _)
PrefixIn(s, set) ==
  IF s # <<>> /\ Head(s) \in set THEN <<Head(s)>> \o PrefixIn(Tail(s), set) ELSE <<>>

\* text.match(/[set]+/): the first maximal run of characters of set, <<>> if none
RECURSIVE FirstRun(_, _)
FirstRun(s, set) ==
  IF s = <<>> THEN <<>>
  ELSE IF Head(s) \in set THEN PrefixIn(s, set)
  ELSE FirstRun(Tail(s), set)

\* the natural number written by a run of digits (0 for the empty run)
RECURSIVE DigitsVal(_)
DigitsVal(ds) ==
  IF ds = <<>> THEN 0 ELSE 10 * DigitsVal(SubSeq(ds, 1, Len(ds) - 1)) + DigitVal(ds[Len(ds)])

(***************************************************************************)
(* Typed values of the comparator: null, a number, a date, a string.       *)
(***************************************************************************)
NullVal == [t |-> "null"]
NumVal(n) == [t |-> "num", n |-> n]
DateVal(ms) == [t |-> "date", n |-> ms]
StrVal(s) == [t |-> "str", s |-> s]

\* the value field of an ExtractedValue: null, or the trimmed text of the element
JsNull == [isNull |-> TRUE, text |-> <<>>]
JsText(s) == [isNull |-> FALSE, text |-> s]

(***************************************************************************)
(* Value Parser (utils/parsing.ts).                                        *)
(***************************************************************************)
\* parseFloat on a string without leading white space, sign or exponent:
\* the longest prefix digits[.digits]; NaN (null here) when it has no digit
parseFloat(s) ==
  LET intPart == PrefixIn(s, Digits)
      rest == SubSeq(s, Len(intPart) + 1, Len(s))
      frac == IF rest # <<>> /\ Head(rest) = "." THEN PrefixIn(Tail(rest), Digits) ELSE <<>>
      kept == SubSeq(frac, 1, IF Len(frac) < FracDigits THEN Len(frac) ELSE FracDigits)
  IN IF intPart = <<>> /\ frac = <<>> THEN NullVal
     ELSE NumVal(DigitsVal(intPart) * Scale
                 + DigitsVal(kept) * Pow10(FracDigits - Len(kept)))

parseNumberValue(text) ==
  LET match == FirstRun(text, Digits \cup {"."})
  IN IF match = <<>> THEN NullVal ELSE parseFloat(match)

parsePriceValue(text) ==
  LET cleaned == KeepChars(text, Digits \cup {".", ","})
      normalized == RemoveFirst(cleaned, ",")
  IN parseFloat(normalized)

\* new Date(text): a four-digit text is the ISO year form; every other text is
\* left to the engine's legacy parser, which either rejects it or reads a run
\* of digits as a date (legacy = TRUE)
parseDateValue(text, legacy) ==
  IF Len(text) = 4 /\ \A i \in 1..4 : text[i] \in Digits
    THEN DateVal(DigitsVal(text) * 12)
  ELSE IF legacy /\ text # <<>> /\ Len(text) <= 2 /\ \A i \in 1..Len(text) : text[i] \in Digits
    THEN DateVal(2001 * 12 + DigitsVal(text))
  ELSE NullVal

parseTextValue(text) == StrVal(ToLowerCase(Trim(text)))

\* parseValue without lines 168-169 (the trim and the test for the empty string)
parseValueUntrimmed(value, parseAs, legacy) ==
  IF value.isNull THEN NullVal
  ELSE CASE parseAs = "number" -> parseNumberValue(value.text)
         [] parseAs = "price" -> parsePriceValue(value.text)
         [] parseAs = "date" -> parseDateValue(value.text, legacy)
         [] OTHER -> parseTextValue(value.text)

parseValue(value, parseAs, legacy) ==
  IF value.isNull THEN NullVal
  ELSE LET stringValue == Trim(value.text)
       IN IF stringValue = <<>> THEN NullVal
          ELSE CASE parseAs = "number" -> parseNumberValue(stringValue)
                 [] parseAs = "price" -> parsePriceValue(stringValue)
                 [] parseAs = "date" -> parseDateValue(stringValue, legacy)
                 [] OTHER -> parseTextValue(stringValue)

(***************************************************************************)
(* Comparator Engine (background/sorting.ts).                              *)
(***************************************************************************)
\* collation order of the model's alphabet: white space, punctuation,
\* currency, digits, letters
Alphabet == <<" ", ",", ".", "$", "0", "1", "2", "3", "4", "5", "6", "7", "8", "9",
              "a", "b", "c", "e", "i", "m", "t">>

Rank(c) == CHOOSE i \in 1..Len(Alphabet) : Alphabet[i] = c

Sign(n) == IF n < 0 THEN -1 ELSE IF n > 0 THEN 1 ELSE 0

\* a.localeCompare(b, undefined, {numeric: true, sensitivity: 'base'}):
\* runs of digits compare by their numeric value, other characters by rank
RECURSIVE localeCompare(_, _)
localeCompare(a, b) ==
  IF a = <<>> THEN (IF b = <<>> THEN 0 ELSE -1)
  ELSE IF b = <<>> THEN 1
  ELSE IF Head(a) \in Digits /\ Head(b) \in Digits
    THEN LET ra == PrefixIn(a, Digits)
             rb == PrefixIn(b, Digits)
         IN IF DigitsVal(ra) # DigitsVal(rb) THEN Sign(DigitsVal(ra) - DigitsVal(rb))
            ELSE localeCompare(SubSeq(a, Len(ra) + 1, Len(a)), SubSeq(b, Len(rb) + 1, Len(b)))
  ELSE IF Rank(Head(a)) # Rank(Head(b)) THEN Sign(Rank(Head(a)) - Rank(Head(b)))
  ELSE localeCompare(Tail(a), Tail(b))

\* lines 29-42: the comparison of two present values of one key
CompareValues(key, aVal, bVal) ==
  IF key.parseAs = "date" /\ aVal.t = "date" /\ bVal.t = "date" THEN aVal.n - bVal.n
  ELSE IF aVal.t = "num" /\ bVal.t = "num" THEN aVal.n - bVal.n
  ELSE localeCompare(aVal.s, bVal.s)

\* lines 17-46 with the missing-value placement turned around by the direction
CompareKeyByDirection(key, missingValuePolicy, legacy, a, b) ==
  LET aVal == parseValue(a.extractedValue, key.parseAs, legacy)
      bVal == parseValue(b.extractedValue, key.parseAs, legacy)
      sign == IF key.direction = "desc" THEN -1 ELSE 1
  IN IF aVal = NullVal /\ bVal = NullVal THEN 0
     ELSE IF aVal = NullVal THEN sign * (IF missingValuePolicy = "last" THEN 1 ELSE -1)
     ELSE IF bVal = NullVal THEN sign * (IF missingValuePolicy = "last" THEN -1 ELSE 1)
     ELSE sign * CompareValues(key, aVal, bVal)

\* lines 17-46 with a missing value placed last whatever the policy
CompareKeyMissingLast(key, missingValuePolicy, legacy, a, b) ==
  LET aVal == parseValue(a.extractedValue, key.parseAs, legacy)
      bVal == parseValue(b.extractedValue, key.parseAs, legacy)
  IN IF aVal = NullVal /\ bVal = NullVal THEN 0
     ELSE IF aVal = NullVal THEN 1
     ELSE IF bVal = NullVal THEN -1
     ELSE LET comparison == CompareValues(key, aVal, bVal)
          IN IF key.direction = "desc" THEN -comparison ELSE comparison

\* lines 17-46: one turn of the loop over the keys; 0 when the loop goes on to
\* the next key (line 20, and line 44 when the comparison is 0)
CompareKey(key, missingValuePolicy, legacy, a, b) ==
  LET aVal == parseValue(a.extractedValue, key.parseAs, legacy)
      bVal == parseValue(b.extractedValue, key.parseAs, legacy)
  IN IF aVal = NullVal /\ bVal = NullVal THEN 0
     ELSE IF aVal = NullVal THEN (IF missingValuePolicy = "last" THEN 1 ELSE -1)
     ELSE IF bVal = NullVal THEN (IF missingValuePolicy = "last" THEN -1 ELSE 1)
     ELSE LET comparison == CompareValues(key, aVal, bVal)
          IN IF key.direction = "desc" THEN -comparison ELSE comparison

\* line 16: the loop over the keys, left at the first key that decides
RECURSIVE CompareKeys(_, _, _, _, _)
CompareKeys(sortKeys, missingValuePolicy, legacy, a, b) ==
  IF sortKeys = <<>> THEN 0
  ELSE LET decided == CompareKey(Head(sortKeys), missingValuePolicy, legacy, a, b)
       IN IF decided # 0 THEN decided
          ELSE CompareKeys(Tail(sortKeys), missingValuePolicy, legacy, a, b)

\* the comparator with the fallback of line 49 turned around
createComparatorLaterFirst(sortKeys, missingValuePolicy, legacy, a, b) ==
  LET decided == CompareKeys(sortKeys, missingValuePolicy, legacy, a, b)
  IN IF decided # 0 THEN decided ELSE b.index - a.index

\* the comparator with the loop of line 16 run from the last key to the first
createComparatorLastKeyFirst(sortKeys, missingValuePolicy, legacy, a, b) ==
  LET reversed == [i \in 1..Len(sortKeys) |-> sortKeys[Len(sortKeys) + 1 - i]]
      decided == CompareKeys(reversed, missingValuePolicy, legacy, a, b)
  IN IF decided # 0 THEN decided ELSE a.index - b.index

\* the comparator without the fallback of line 49
createComparatorNoFallback(sortKeys, missingValuePolicy, legacy, a, b) ==
  CompareKeys(sortKeys, missingValuePolicy, legacy, a, b)

\* the comparator with every key's value parsed as the first key's type
createComparatorFirstType(sortKeys, missingValuePolicy, legacy, a, b) ==
  LET keys == [i \in DOMAIN sortKeys |-> [sortKeys[i] EXCEPT !.parseAs = sortKeys[1].parseAs]]
      decided == CompareKeys(keys, missingValuePolicy, legacy, a, b)
  IN IF decided # 0 THEN decided ELSE a.index - b.index

\* the comparator returned by createComparator, applied to a and b; line 49 is
\* the fallback when no key decides
createComparator(sortKeys, missingValuePolicy, legacy, a, b) ==
  LET decided == CompareKeys(sortKeys, missingValuePolicy, legacy, a, b)
  IN IF decided # 0 THEN decided ELSE a.index - b.index

\* Array.prototype.sort with the comparator of stableSort (lines 59-62): for a
\* comparator that never ties two distinct entries the sorted order is unique,
\* computed here by insertion
stableSortCompare(sortKeys, missingValuePolicy, legacy, x, y) ==
  LET result == createComparator(sortKeys, missingValuePolicy, legacy, x.item, y.item)
  IN IF result # 0 THEN result ELSE x.index - y.index

RECURSIVE InsertEntry(_, _, _, _, _)
InsertEntry(sorted, x, sortKeys, missingValuePolicy, legacy) ==
  IF sorted = <<>> THEN <<x>>
  ELSE IF stableSortCompare(sortKeys, missingValuePolicy, legacy, x, Head(sorted)) < 0
    THEN <<x>> \o sorted
  ELSE <<Head(sorted)>> \o InsertEntry(Tail(sorted), x, sortKeys, missingValuePolicy, legacy)

RECURSIVE SortEntries(_, _, _, _)
SortEntries(indexed, sortKeys, missingValuePolicy, legacy) ==
  IF indexed = <<>> THEN <<>>
  ELSE InsertEntry(
         SortEntries(SubSeq(indexed, 1, Len(indexed) - 1), sortKeys, missingValuePolicy, legacy),
         indexed[Len(indexed)], sortKeys, missingValuePolicy, legacy)

\* stableSort on the tabs that have a value only
stableSortOfPresent(array, sortKeys, missingValuePolicy, legacy) ==
  LET Present(t) == ~t.extractedValue.isNull
      kept == SelectSeq(array, Present)
      indexed == [i \in 1..Len(kept) |-> [item |-> kept[i], index |-> i - 1]]
      sorted == SortEntries(indexed, sortKeys, missingValuePolicy, legacy)
  IN [i \in 1..Len(sorted) |-> sorted[i].item]

stableSort(array, sortKeys, missingValuePolicy, legacy) ==
  LET indexed == [i \in 1..Len(array) |-> [item |-> array[i], index |-> i - 1]]
      sorted == SortEntries(indexed, sortKeys, missingValuePolicy, legacy)
  IN [i \in 1..Len(sorted) |-> sorted[i].item]

(***************************************************************************)
(* Strings of the program.                                                 *)
(***************************************************************************)
\* ".price"
SelectorText ==
  <<".", "p", "r", "i", "c", "e">>

\* "No selector provided"
NoSelectorNote ==
  <<"N", "o", " ", "s", "e", "l", "e", "c", "t", "o", "r", " ", "p", "r", "o", "v",
    "i", "d", "e", "d">>

\* "Extraction timed out (tab may be loading)"
TimedOutMessage ==
  <<"E", "x", "t", "r", "a", "c", "t", "i", "o", "n", " ", "t", "i", "m", "e", "d",
    " ", "o", "u", "t", " ", "(", "t", "a", "b", " ", "m", "a", "y", " ", "b", "e",
    " ", "l", "o", "a", "d", "i", "n", "g", ")">>

\* "Extraction failed: "
ExtractionFailedPrefix ==
  <<"E", "x", "t", "r", "a", "c", "t", "i", "o", "n", " ", "f", "a", "i", "l", "e",
    "d", ":", " ">>

\* "TabSorterError"
TabSorterErrorName ==
  <<"T", "a", "b", "S", "o", "r", "t", "e", "r", "E", "r", "r", "o", "r">>

\* "Global timeout - tab may be slow to load"
GlobalTimeoutNote ==
  <<"G", "l", "o", "b", "a", "l", " ", "t", "i", "m", "e", "o", "u", "t", " ", "-",
    " ", "t", "a", "b", " ", "m", "a", "y", " ", "b", "e", " ", "s", "l", "o", "w",
    " ", "t", "o", " ", "l", "o", "a", "d">>

\* "Global extraction timeout"
GlobalTimeoutMessage ==
  <<"G", "l", "o", "b", "a", "l", " ", "e", "x", "t", "r", "a", "c", "t", "i", "o",
    "n", " ", "t", "i", "m", "e", "o", "u", "t">>

\* "Tab not loaded (discarded)"
TabNotLoadedMessage ==
  <<"T", "a", "b", " ", "n", "o", "t", " ", "l", "o", "a", "d", "e", "d", " ", "(",
    "d", "i", "s", "c", "a", "r", "d", "e", "d", ")">>

\* "Cannot access protected page"
TabProtectedMessage ==
  <<"C", "a", "n", "n", "o", "t", " ", "a", "c", "c", "e", "s", "s", " ", "p", "r",
    "o", "t", "e", "c", "t", "e", "d", " ", "p", "a", "g", "e">>

\* "Failed to extract value"
FailedToExtractNote ==
  <<"F", "a", "i", "l", "e", "d", " ", "t", "o", " ", "e", "x", "t", "r", "a", "c",
    "t", " ", "v", "a", "l", "u", "e">>

\* "Extraction error: "
ExtractionErrorPrefix ==
  <<"E", "x", "t", "r", "a", "c", "t", "i", "o", "n", " ", "e", "r", "r", "o", "r",
    ":", " ">>

\* "Error: No tab with id"
NoTabErrorText ==
  <<"E", "r", "r", "o", "r", ":", " ", "N", "o", " ", "t", "a", "b", " ", "w", "i",
    "t", "h", " ", "i", "d">>

\* "Element not found with selector: " and the opening quote
ElementNotFoundPrefix ==
  <<"E", "l", "e", "m", "e", "n", "t", " ", "n", "o", "t", " ", "f", "o", "u", "n",
    "d", " ", "w", "i", "t", "h", " ", "s", "e", "l", "e", "c", "t", "o", "r", ":",
    " ", "\"">>

\* "timeout"
TimeoutWord ==
  <<"t", "i", "m", "e", "o", "u", "t">>

\* "timed out"
TimedOutWords ==
  <<"t", "i", "m", "e", "d", " ", "o", "u", "t">>

\* "a.shop.com"
ShopUrl ==
  <<"a", ".", "s", "h", "o", "p", ".", "c", "o", "m">>

\* "b.store.com"
StoreUrl ==
  <<"b", ".", "s", "t", "o", "r", "e", ".", "c", "o", "m">>

\* "chrome://x"
ChromeUrl ==
  <<"c", "h", "r", "o", "m", "e", ":", "/", "/", "x">>

\* "chrome://"
ChromePrefix ==
  <<"c", "h", "r", "o", "m", "e", ":", "/", "/">>

\* "chrome-extension://"
ChromeExtensionPrefix ==
  <<"c", "h", "r", "o", "m", "e", "-", "e", "x", "t", "e", "n", "s", "i", "o", "n",
    ":", "/", "/">>

\* "edge://"
EdgePrefix ==
  <<"e", "d", "g", "e", ":", "/", "/">>

\* "about:"
AboutPrefix ==
  <<"a", "b", "o", "u", "t", ":">>

\* "file://"
FilePrefix ==
  <<"f", "i", "l", "e", ":", "/", "/">>

\* "chrome.google.com/webstore"
WebStoreHost ==
  <<"c", "h", "r", "o", "m", "e", ".", "g", "o", "o", "g", "l", "e", ".", "c", "o",
    "m", "/", "w", "e", "b", "s", "t", "o", "r", "e">>

\* ": "
ColonSpace ==
  <<":", " ">>

\* s.includes(sub)
Includes(s, sub) ==
  \E i \in 1..(Len(s) - Len(sub) + 1) : SubSeq(s, i, i + Len(sub) - 1) = sub

\* s.startsWith(prefix)
StartsWith(s, prefix) ==
  Len(s) >= Len(prefix) /\ SubSeq(s, 1, Len(prefix)) = prefix

Range(s) == {s[i] : i \in 1..Len(s)}

\* the position of tab id in a sequence of ids, 0 when absent
IndexOf(s, id) ==
  IF id \in Range(s) THEN CHOOSE i \in 1..Len(s) : s[i] = id ELSE 0

(***************************************************************************)
(* Tab Collector (background/tabs.ts, getTargetTabs).                      *)
(***************************************************************************)
\* the pattern of "no filter": urlRegex undefined or empty
NoRegex == <<>>

\* new RegExp(pattern, 'i') throws on a group or class that is never closed,
\* on a closing parenthesis without an opening one and on a leading "*"
RECURSIVE RegExpOpen(_, _)
RegExpOpen(p, depth) ==
  IF p = <<>> THEN depth # 0
  ELSE IF Head(p) = "\\" THEN (Len(p) < 2 \/ RegExpOpen(SubSeq(p, 3, Len(p)), depth))
  ELSE IF Head(p) = "(" THEN RegExpOpen(Tail(p), depth + 1)
  ELSE IF Head(p) = ")" THEN (depth = 0 \/ RegExpOpen(Tail(p), depth - 1))
  ELSE IF Head(p) = "[" THEN ("]" \notin Range(Tail(p)) \/ RegExpOpen(Tail(p), depth))
  ELSE RegExpOpen(Tail(p), depth)

RegExpThrows(p) == (p # <<>> /\ Head(p) = "*") \/ RegExpOpen(p, 0)

\* matching of the patterns built from literals, ".", "\c" and "x*"
RECURSIVE MatchHere(_, _)
RECURSIVE MatchStar(_, _, _, _)
MatchHere(re, text) ==
  IF re = <<>> THEN TRUE
  ELSE LET esc == Head(re) = "\\" /\ Len(re) >= 2
           lit == IF esc THEN re[2] ELSE re[1]
           any == ~esc /\ re[1] = "."
           rest == SubSeq(re, (IF esc THEN 3 ELSE 2), Len(re))
       IN IF rest # <<>> /\ Head(rest) = "*" THEN MatchStar(any, lit, Tail(rest), text)
          ELSE /\ text # <<>>
               /\ (any \/ Head(text) = lit)
               /\ MatchHere(rest, Tail(text))

MatchStar(any, lit, re, text) ==
  \/ MatchHere(re, text)
  \/ (text # <<>> /\ (any \/ Head(text) = lit) /\ MatchStar(any, lit, re, Tail(text)))

\* regex.test(url) for a regex compiled with the flag 'i'
RegExpTest(pattern, s) ==
  \E i \in 1..(Len(s) + 1) :
    MatchHere(ToLowerCase(pattern), SubSeq(ToLowerCase(s), i, Len(s)))

\* lines 12-21: the tabs the collector can address
Addressable(tabUrl) ==
  /\ ~StartsWith(tabUrl, ChromePrefix)
  /\ ~StartsWith(tabUrl, ChromeExtensionPrefix)
  /\ ~StartsWith(tabUrl, EdgePrefix)
  /\ ~StartsWith(tabUrl, AboutPrefix)
  /\ ~StartsWith(tabUrl, FilePrefix)
  /\ ~Includes(tabUrl, WebStoreHost)

\* getTargetTabs with the returned tabs numbered anew from 0 (lines 45-54 with
\* the position in the filtered list in the place of tab.index)
getTargetTabsReindexed(queried, urlRegex) ==
  LET Address(tab) == Addressable(tab.url)
      Matches(tab) == RegExpTest(urlRegex, tab.url)
      filteredTabs == SelectSeq(queried, Address)
      kept == IF urlRegex # NoRegex /\ ~RegExpThrows(urlRegex)
                THEN SelectSeq(filteredTabs, Matches)
                ELSE filteredTabs
  IN [i \in 1..Len(kept) |-> [kept[i] EXCEPT !.index = i - 1]]

\* getTargetTabs with a pattern that does not compile treated as a filter that
\* no URL passes
getTargetTabsStrict(queried, urlRegex) ==
  LET Address(tab) == Addressable(tab.url)
      Matches(tab) == RegExpTest(urlRegex, tab.url)
      filteredTabs == SelectSeq(queried, Address)
  IN IF urlRegex = NoRegex THEN filteredTabs
     ELSE IF RegExpThrows(urlRegex) THEN <<>>
     ELSE SelectSeq(filteredTabs, Matches)

\* getTargetTabs applied to the result of chrome.tabs.query
getTargetTabs(queried, urlRegex) ==
  LET Address(tab) == Addressable(tab.url)
      Matches(tab) == RegExpTest(urlRegex, tab.url)
      filteredTabs == SelectSeq(queried, Address)
  IN IF urlRegex # NoRegex /\ ~RegExpThrows(urlRegex)
       THEN SelectSeq(filteredTabs, Matches)
     ELSE filteredTabs

(***************************************************************************)
(* The browser's tab strip (chrome.tabs).                                  *)
(***************************************************************************)
\* chrome.tabs.move(id, {index}) on an open tab: the strip keeps pinned tabs
\* in front, so the index is constrained to the tab's own range
BrowserMove(tabStrip, isPinned, id, index) ==
  LET NotId(x) == x # id
      without == SelectSeq(tabStrip, NotId)
      nPinned == Cardinality({i \in 1..Len(without) : isPinned[without[i]]})
      lo == IF isPinned[id] THEN 0 ELSE nPinned
      hi == IF isPinned[id] THEN nPinned ELSE Len(without)
      at == IF index < lo THEN lo ELSE IF index > hi THEN hi ELSE index
  IN SubSeq(without, 1, at) \o <<id>> \o SubSeq(without, at + 1, Len(without))

(***************************************************************************)
(* Value Extractor (content script and background/messaging.ts).           *)
(***************************************************************************)
\* content script, extractValue: the element's trimmed text, or null with a note
extractValue(selector, dom) ==
  IF selector = <<>>
    THEN [tabId |-> -1, value |-> JsNull, notes |-> NoSelectorNote]
  ELSE IF ~dom.found
    THEN [tabId |-> -1, value |-> JsNull,
          notes |-> ElementNotFoundPrefix \o selector \o <<"\"">>]
  ELSE [tabId |-> -1, value |-> JsText(Trim(dom.text)), notes |-> <<>>]

\* extractValueFromTab without line 286 (response.tabId = tabId)
extractValueFromTabAsAnswered(tabId, selector, tabUrl, env) ==
  IF env.get = "throws"
    THEN [tabId |-> tabId, value |-> JsNull, notes |-> ExtractionErrorPrefix \o NoTabErrorText]
  ELSE IF env.get = "unloaded"
    THEN [tabId |-> tabId, value |-> JsNull, notes |-> TabNotLoadedMessage]
  ELSE IF ~env.injected
    THEN [tabId |-> tabId, value |-> JsNull,
          notes |-> TabProtectedMessage \o ColonSpace \o tabUrl]
  ELSE IF ~env.responded
    THEN [tabId |-> tabId, value |-> JsNull, notes |-> FailedToExtractNote]
  ELSE extractValue(selector, env.dom)

\* extractValueFromTab: env is what the tab answers to chrome.tabs.get, to the
\* injection and to the EXTRACT_VALUE message
extractValueFromTab(tabId, selector, tabUrl, env) ==
  IF env.get = "throws"
    THEN [tabId |-> tabId, value |-> JsNull, notes |-> ExtractionErrorPrefix \o NoTabErrorText]
  ELSE IF env.get = "unloaded"
    THEN [tabId |-> tabId, value |-> JsNull, notes |-> TabNotLoadedMessage]
  ELSE IF ~env.injected
    THEN [tabId |-> tabId, value |-> JsNull,
          notes |-> TabProtectedMessage \o ColonSpace \o tabUrl]
  ELSE IF ~env.responded
    THEN [tabId |-> tabId, value |-> JsNull, notes |-> FailedToExtractNote]
  ELSE [extractValue(selector, env.dom) EXCEPT !.tabId = tabId]

\* isProtectedUrl: the URLs injectContentScript refuses before it injects
isProtectedUrl(tabUrl) ==
  \/ StartsWith(tabUrl, ChromePrefix)
  \/ StartsWith(tabUrl, ChromeExtensionPrefix)
  \/ StartsWith(tabUrl, EdgePrefix)
  \/ StartsWith(tabUrl, AboutPrefix)
  \/ StartsWith(tabUrl, WebStoreHost)

Call(name, answer) == [call |-> name, answer |-> answer]

\* the requests injectContentScript sends to the browser, in order, with their
\* answers: chrome.tabs.get, then the two chrome.scripting.executeScript (a
\* refused injection throws at the first)
InjectionCalls(tabUrl, env) ==
  IF isProtectedUrl(tabUrl) THEN <<Call("tabs.get", "ok")>>
  ELSE IF ~env.injected THEN <<Call("tabs.get", "ok"), Call("executeScript", "throws")>>
  ELSE <<Call("tabs.get", "ok"), Call("executeScript", "ok"), Call("executeScript", "ok")>>

\* extractValueFromTab with the status checked after the injection
ExtractionCallsInjectFirst(tabUrl, env) ==
  IF env.get = "throws" THEN <<Call("tabs.get", env.get)>>
  ELSE <<Call("tabs.get", env.get)>> \o InjectionCalls(tabUrl, env)

\* the requests extractValueFromTab sends to the browser and to the tab, in
\* order, with their answers (lines 248, 258 and 274)
ExtractionCalls(tabUrl, env) ==
  IF env.get \in {"throws", "unloaded"} THEN <<Call("tabs.get", env.get)>>
  ELSE <<Call("tabs.get", env.get)>> \o InjectionCalls(tabUrl, env)
       \o (IF env.injected
             THEN <<Call("sendMessage", IF env.responded THEN "ok" ELSE "throws")>>
             ELSE <<>>)

(***************************************************************************)
(* Extraction Orchestrator (background/sortOperations.ts).                 *)
(* Time is abstracted: an armed timer may fire at any moment, in any order *)
(* with the other timers and with the answers of the tabs.                 *)
(***************************************************************************)
\* ErrorFactory.extractionTimeout and String(error)
extractionTimeout == [name |-> TabSorterErrorName, message |-> TimedOutMessage]
globalTimeoutError == [name |-> <<"E", "r", "r", "o", "r">>, message |-> GlobalTimeoutMessage]
StringOfError(error) == error.name \o ColonSpace \o error.message

\* lines 147-160: the mapper's catch
CaughtResult(tabId, error) ==
  LET errorMessage == StringOfError(error)
      isTimeout == Includes(errorMessage, TimeoutWord)
  IN [tabId |-> tabId, value |-> JsNull,
      notes |-> IF isTimeout THEN TimedOutMessage ELSE ExtractionFailedPrefix \o errorMessage]

\* lines 124-130
NoSelectorResult(tabId) == [tabId |-> tabId, value |-> JsNull, notes |-> NoSelectorNote]

NoResult == [tabId |-> 0, value |-> JsNull, notes |-> <<>>]
\* a per-tab promise (the async mapper of lines 123-161); by records what settled
\* it: the mapper itself ("mapper"), the extraction ("extraction"), the timer
Pending == [state |-> "pending", value |-> NoResult, by |-> "none"]
Fulfilled(v, by) == [state |-> "fulfilled", value |-> v, by |-> by]

\* lines 178-200: the results of Promise.allSettled, in input order
SettledResults(tabList, settled) ==
  [i \in 1..Len(tabList) |->
     IF settled[i].state = "fulfilled" THEN settled[i].value
     ELSE [tabId |-> tabList[i].id, value |-> JsNull,
           notes |-> ExtractionFailedPrefix \o StringOfError(extractionTimeout)]]

\* lines 181-187: the statistic a fulfilled result is counted under
CountedAs(value) ==
  IF ~value.value.isNull THEN "success"
  ELSE IF Includes(value.notes, TimeoutWord) THEN "timeout"
  ELSE "error"

\* lines 208-217: the catch of the global timeout
GlobalTimeoutResults(tabList, settled) ==
  [i \in 1..Len(tabList) |->
     [tabId |-> tabList[i].id, value |-> JsNull, notes |-> GlobalTimeoutNote]]

(***************************************************************************)
(* performSort / performPreview (background/sortOperations.ts) and         *)
(* moveTabs (background/tabs.ts).                                          *)
(***************************************************************************)
\* lines 29-36: each collected tab with the value found under its id
WithValues(tabList, values) ==
  [i \in 1..Len(tabList) |->
     LET hits == {j \in 1..Len(values) : values[j].tabId = tabList[i].id}
         first == CHOOSE j \in hits : \A k \in hits : j <= k
     IN [id |-> tabList[i].id, index |-> tabList[i].index, pinned |-> tabList[i].pinned,
         extractedValue |-> IF hits = {} THEN JsNull ELSE values[first].value]]

\* lines 43-53: one error entry per null value
ErrorsOf(values) ==
  LET IsNullValue(e) == e.value.isNull
      nulls == SelectSeq(values, IsNullValue)
  IN [i \in 1..Len(nulls) |->
        [tabId |-> nulls[i].tabId,
         error |-> IF nulls[i].notes # <<>> THEN nulls[i].notes ELSE FailedToExtractNote]]

Ids(tabList) == [i \in 1..Len(tabList) |-> tabList[i].id]

\* moveTabs lines 69-76 with the pinned tabs moved like the others
MoveListAll(windowTabs, keepPinned) == Ids(windowTabs)

\* moveTabs lines 69-76 with every tab to place listed twice
MoveListTwice(windowTabs, keepPinned) ==
  LET Unpinned(tab) == ~tab.pinned
      placed == IF keepPinned THEN Ids(SelectSeq(windowTabs, Unpinned)) ELSE Ids(windowTabs)
  IN placed \o placed

\* moveTabs lines 69-76: the tabs to move, in order, and the first target index
MoveList(windowTabs, keepPinned) ==
  LET Unpinned(tab) == ~tab.pinned
  IN IF keepPinned THEN Ids(SelectSeq(windowTabs, Unpinned)) ELSE Ids(windowTabs)

FirstTargetIndex(windowTabs, keepPinned) ==
  LET Pinned(tab) == tab.pinned
  IN IF keepPinned THEN Len(SelectSeq(windowTabs, Pinned)) ELSE 0

VARIABLES
  strip,               \* the window's open tabs (ids), in strip order
  pinned,              \* tab id -> pinned
  url,                 \* tab id -> URL
  dateLegacy,          \* whether the engine's legacy date parser accepts digit runs
  op,                  \* "sort", "preview"; "extract" and "compare" run one component
  urlRegex,            \* the request's URL filter pattern
  sortKeys,            \* the request's sort keys
  keepPinnedStatic,
  missingValuePolicy,
  pc,                  \* position of the invocation
  tabs,                \* the collected snapshot
  promises,            \* the per-tab promises of extractValuesFromTabs
  batchEnd,            \* which side won the global race
  extractedValues,
  tabsWithValues,
  sortedTabs,
  moveList,            \* moveTabs: the tabs still to move
  targetIndex,         \* moveTabs: the next target index
  moves,               \* the moves issued so far
  result,              \* what the invocation returned
  responses,           \* the responses sent to the requester
  previous,            \* the window and the values at the end of an earlier run
  parsed,              \* what parseValue returned
  calls,               \* the browser calls made by extractValueFromTab
  rival,               \* a second invocation overlapping this one
  stored,              \* chrome.storage.local: the settings object
  savers,              \* the saveSettings calls: position, argument, what was read
  reloads,             \* handleLoadUnloadedTabs: position, batch, state of each reload
  clock                \* time since the batch was launched, and whether timers fire on time

vars == <<strip, pinned, url, dateLegacy, op, urlRegex, sortKeys, keepPinnedStatic,
          missingValuePolicy, pc, tabs, promises, batchEnd, extractedValues,
          tabsWithValues, sortedTabs, moveList, targetIndex, moves, result,
          responses, previous, parsed, calls, rival, stored, savers, reloads,
          clock>>

browser == <<strip, pinned, url, dateLegacy>>
request == <<op, urlRegex, sortKeys, keepPinnedStatic, missingValuePolicy>>
background == <<stored, savers, reloads, clock>>
extras == <<parsed, calls, rival, background>>
ledger == <<responses, previous, extras>>

\* no second invocation has been started
NoRival == [phase |-> "none", snapshot |-> <<>>, seen |-> 0]

NoReturn == [status |-> "none", tabs |-> <<>>, errors |-> <<>>]
Resolved(tabList, errors) == [status |-> "resolved", tabs |-> Ids(tabList), errors |-> errors]
Rejected == [status |-> "rejected", tabs |-> <<>>, errors |-> <<>>]

\* chrome.tabs.query({currentWindow: true})
QueryTabs ==
  [i \in 1..Len(strip) |->
     [id |-> strip[i], index |-> i - 1, pinned |-> pinned[strip[i]], url |-> url[strip[i]]]]

\* performSort line 21-25, performPreview lines 67-71
Collect ==
  /\ pc = "start"
  /\ tabs' = getTargetTabs(QueryTabs, urlRegex)
  /\ IF tabs' = <<>>
       THEN pc' = "done" /\ result' = Resolved(<<>>, <<>>)
       ELSE pc' = "launch" /\ UNCHANGED result
  /\ UNCHANGED <<browser, request, ledger, promises, batchEnd, extractedValues, tabsWithValues,
                 sortedTabs, moveList, targetIndex, moves>>

\* extractValuesFromTabs lines 173-219: the batch returns its list to the caller,
\* which is suspended at its await
AfterExtraction(values, how) ==
  /\ extractedValues' = values
  /\ batchEnd' = how
  /\ pc' = "extracted"
  /\ UNCHANGED <<tabsWithValues, sortedTabs, moveList, targetIndex, result>>

\* performSort lines 29-41 taken by a preview as well: the moves are planned
\* whatever the operation
ContinueAsSort ==
  /\ pc = "extracted"
  /\ op \in {"sort", "preview"}
  /\ tabsWithValues' = WithValues(tabs, extractedValues)
  /\ sortedTabs' = stableSort(tabsWithValues', sortKeys, missingValuePolicy, dateLegacy)
  /\ moveList' = MoveList(sortedTabs', keepPinnedStatic)
  /\ targetIndex' = FirstTargetIndex(sortedTabs', keepPinnedStatic)
  /\ IF moveList' = <<>>
       THEN pc' = "done" /\ result' = Resolved(sortedTabs', ErrorsOf(extractedValues))
       ELSE pc' = "moving" /\ UNCHANGED result
  /\ UNCHANGED <<browser, request, ledger, tabs, promises, batchEnd, extractedValues, moves>>

\* performPreview returning the tabs as collected (without lines 84-85)
ContinuePreviewCollected ==
  /\ pc = "extracted"
  /\ op \in {"sort", "preview"}
  /\ tabsWithValues' = WithValues(tabs, extractedValues)
  /\ sortedTabs' = IF op = "sort"
                     THEN stableSort(tabsWithValues', sortKeys, missingValuePolicy, dateLegacy)
                     ELSE tabsWithValues'
  /\ moveList' = IF op = "sort" THEN MoveList(sortedTabs', keepPinnedStatic) ELSE <<>>
  /\ targetIndex' = IF op = "sort" THEN FirstTargetIndex(sortedTabs', keepPinnedStatic) ELSE 0
  /\ IF moveList' = <<>>
       THEN pc' = "done" /\ result' = Resolved(sortedTabs', ErrorsOf(extractedValues))
       ELSE pc' = "moving" /\ UNCHANGED result
  /\ UNCHANGED <<browser, request, ledger, tabs, promises, batchEnd, extractedValues, moves>>

\* the caller resumes: performSort lines 29-41 and 43-55 (up to the first move of
\* moveTabs, lines 57-76), performPreview lines 75-99
Continue ==
  /\ pc = "extracted"
  /\ op \in {"sort", "preview"}
  /\ tabsWithValues' = WithValues(tabs, extractedValues)
  /\ sortedTabs' = stableSort(tabsWithValues', sortKeys, missingValuePolicy, dateLegacy)
  /\ moveList' = IF op = "sort" THEN MoveList(sortedTabs', keepPinnedStatic) ELSE <<>>
  /\ targetIndex' = IF op = "sort" THEN FirstTargetIndex(sortedTabs', keepPinnedStatic) ELSE 0
  /\ IF moveList' = <<>>
       THEN pc' = "done" /\ result' = Resolved(sortedTabs', ErrorsOf(extractedValues))
       ELSE pc' = "moving" /\ UNCHANGED result
  /\ UNCHANGED <<browser, request, ledger, tabs, promises, batchEnd, extractedValues, moves>>

\* Promise.any in the place of Promise.allSettled: one settled promise is enough
AnySettled(settled) == \E i \in DOMAIN settled : settled[i].state = "fulfilled"

AllSettled(settled) == \A i \in DOMAIN settled : settled[i].state = "fulfilled"

\* extractValuesFromTabs lines 123-170: every tab's extraction is started, with
\* its timer, and the global timer is armed
Launch ==
  /\ pc = "launch"
  /\ promises' = [i \in 1..Len(tabs) |->
                    IF sortKeys[1].selector = <<>>
                      THEN Fulfilled(NoSelectorResult(tabs[i].id), "mapper")
                      ELSE Pending]
  /\ IF AllSettled(promises')
       THEN AfterExtraction(SettledResults(tabs, promises'), "allSettled")
       ELSE /\ pc' = "extracting"
            /\ UNCHANGED <<batchEnd, extractedValues, tabsWithValues, sortedTabs,
                           moveList, targetIndex, result>>
  /\ UNCHANGED <<browser, request, ledger, tabs, moves>>

Settle(i, value, by) ==
  /\ promises' = [promises EXCEPT ![i] = Fulfilled(value, by)]
  /\ IF AllSettled(promises')
       THEN AfterExtraction(SettledResults(tabs, promises'), "allSettled")
       ELSE UNCHANGED <<pc, batchEnd, extractedValues, tabsWithValues, sortedTabs,
                        moveList, targetIndex, result>>
  /\ UNCHANGED <<browser, request, ledger, tabs, moves>>

\* lines 137-146: the tab's extraction wins the race against its timer
ExtractionResolves(i, env) ==
  /\ pc = "extracting"
  /\ promises[i].state = "pending"
  /\ Settle(i, extractValueFromTab(tabs[i].id, sortKeys[1].selector, tabs[i].url, env), "extraction")

\* lines 133-135 and 147-160: the tab's timer (TIMEOUTS.TAB_EXTRACTION) fires first
TabTimeout(i) ==
  /\ pc = "extracting"
  /\ promises[i].state = "pending"
  /\ Settle(i, CaughtResult(tabs[i].id, extractionTimeout), "timer")

\* the global timer fires and the catch of lines 208-219 throws the error on
GlobalTimeoutRethrows ==
  /\ pc = "extracting"
  /\ pc' = "done"
  /\ result' = Rejected
  /\ UNCHANGED <<browser, request, ledger, tabs, promises, moves, batchEnd, extractedValues,
                 tabsWithValues, sortedTabs, moveList, targetIndex>>

\* lines 165-170 and 208-219: the global timer (TIMEOUTS.GLOBAL_EXTRACTION) fires
\* while some promise is pending
GlobalTimeout ==
  /\ pc = "extracting"
  /\ IF Includes(globalTimeoutError.message, TimeoutWord)
       THEN AfterExtraction(GlobalTimeoutResults(tabs, promises), "globalTimeout")
       ELSE /\ pc' = "done"
            /\ result' = Rejected
            /\ UNCHANGED <<batchEnd, extractedValues, tabsWithValues, sortedTabs,
                           moveList, targetIndex>>
  /\ UNCHANGED <<browser, request, ledger, tabs, promises, moves>>

\* moveTabs lines 77-82 / 84-89: one awaited chrome.tabs.move; a rejected move
\* leaves moveTabs and performSort
MoveNext ==
  /\ pc = "moving"
  /\ LET id == Head(moveList)
     IN /\ moves' = Append(moves, [tabId |-> id, index |-> targetIndex, ok |-> id \in Range(strip)])
        /\ targetIndex' = targetIndex + 1
        /\ moveList' = Tail(moveList)
        /\ IF id \in Range(strip)
             THEN /\ strip' = BrowserMove(strip, pinned, id, targetIndex)
                  /\ IF Tail(moveList) = <<>>
                       THEN pc' = "done" /\ result' = Resolved(sortedTabs, ErrorsOf(extractedValues))
                       ELSE UNCHANGED <<pc, result>>
             ELSE /\ pc' = "done"
                  /\ result' = Rejected
                  /\ UNCHANGED strip
  /\ UNCHANGED <<pinned, url, dateLegacy, request, ledger, tabs, promises, batchEnd, extractedValues,
                 tabsWithValues, sortedTabs>>

\* the user closes a tab of the window while moveTabs is between two moves
CloseTab(t) ==
  /\ pc = "moving"
  /\ t \in Range(strip)
  /\ Cardinality(DOMAIN pinned) - Len(strip) < MaxClosed
  /\ strip' = LET NotT(x) == x # t IN SelectSeq(strip, NotT)
  /\ UNCHANGED <<pinned, url, dateLegacy, request, ledger, pc, tabs, promises, batchEnd,
                 extractedValues, tabsWithValues, sortedTabs, moveList, targetIndex,
                 moves, result>>

\* handleMessage lines 223-232: the handler's result is sent as the response; a
\* handler that threw is answered with {success: false, error}
Respond ==
  /\ pc = "done"
  /\ op \in {"sort", "preview", "probe"}
  /\ responses' = Append(responses,
       IF result.status = "resolved"
         THEN [kind |-> "result", tabs |-> result.tabs, errors |-> result.errors]
         ELSE [kind |-> "failure", tabs |-> <<>>, errors |-> <<>>])
  /\ pc' = "answered"
  /\ UNCHANGED <<browser, request, previous, extras, tabs, promises, batchEnd,
                 extractedValues, tabsWithValues, sortedTabs, moveList, targetIndex, moves,
                 result>>

\* the requester sends the same SORT_TABS message once more (handleSortTabs lines
\* 29-36): performSort starts again on the window as the first run left it
SortAgain ==
  /\ pc = "answered"
  /\ op = "sort"
  /\ result.status = "resolved"
  /\ previous = <<>>
  /\ previous' = <<[strip |-> strip, values |-> extractedValues]>>
  /\ pc' = "start"
  /\ tabs' = <<>>
  /\ promises' = <<>>
  /\ batchEnd' = "none"
  /\ extractedValues' = <<>>
  /\ tabsWithValues' = <<>>
  /\ sortedTabs' = <<>>
  /\ moveList' = <<>>
  /\ targetIndex' = 0
  /\ moves' = <<>>
  /\ result' = NoReturn
  /\ UNCHANGED <<browser, request, responses, extras>>

\* handleTestSelector (messageHandlers.ts lines 104-111): a TEST_SELECTOR request
\* calls extractValueFromTab on the tab it names, with no timer around it
TestSelector(t) ==
  /\ pc = "start"
  /\ op = "probe"
  /\ tabs' = LET IsT(tab) == tab.id = t IN SelectSeq(QueryTabs, IsT)
  /\ pc' = "probing"
  /\ UNCHANGED <<browser, request, ledger, promises, batchEnd, extractedValues, tabsWithValues,
                 sortedTabs, moveList, targetIndex, moves, result>>

\* extractValueFromTab lines 246-295 come to a return: the browser and the page
\* have answered each await (or refused, or thrown)
\* (a protected page is never injected); calls keeps what was asked of them
ProbeResolves(env) ==
  /\ pc = "probing"
  /\ env.injected => ~isProtectedUrl(tabs[1].url)
  /\ extractedValues' =
       <<extractValueFromTab(tabs[1].id, sortKeys[1].selector, tabs[1].url, env)>>
  /\ calls' = ExtractionCalls(tabs[1].url, env)
  /\ result' = Resolved(<<>>, <<>>)
  /\ pc' = "done"
  /\ UNCHANGED <<browser, request, responses, previous, parsed, rival, background, tabs, promises,
                 batchEnd, tabsWithValues, sortedTabs, moveList, targetIndex, moves>>

\* a PREVIEW_SORT request arrives while the SORT_TABS request is in flight (the
\* popup keeps the Preview button enabled while an Apply runs, and the listener
\* starts every request at once): it takes its snapshot and starts extracting
RivalStarts ==
  /\ op = "sort"
  /\ pc \in {"launch", "extracting", "extracted", "moving"}
  /\ rival.phase = "none"
  /\ rival' = [phase |-> "reading", snapshot |-> getTargetTabs(QueryTabs, urlRegex),
               seen |-> Len(moves)]
  /\ UNCHANGED <<browser, request, responses, previous, parsed, calls, background, pc, tabs, promises,
                 batchEnd, extractedValues, tabsWithValues, sortedTabs, moveList,
                 targetIndex, moves, result>>

\* the second request's extraction has ended and it returns its preview
RivalReturns ==
  /\ rival.phase = "reading"
  /\ rival' = [rival EXCEPT !.phase = "returned"]
  /\ UNCHANGED <<browser, request, responses, previous, parsed, calls, background, pc, tabs, promises,
                 batchEnd, extractedValues, tabsWithValues, sortedTabs, moveList,
                 targetIndex, moves, result>>

\* parseValue applied to an extracted value under the key's type
ParseStep ==
  /\ pc = "parsing"
  /\ parsed' = parseValue(tabsWithValues[1].extractedValue, sortKeys[1].parseAs, dateLegacy)
  /\ pc' = "parsed"
  /\ UNCHANGED <<browser, request, responses, previous, calls, rival, background, tabs, promises,
                 batchEnd, extractedValues, tabsWithValues, sortedTabs, moveList,
                 targetIndex, moves, result>>

\* createComparator and stableSort applied to a list of tabs with values
SortStep ==
  /\ pc = "sorting"
  /\ sortedTabs' = stableSort(tabsWithValues, sortKeys, missingValuePolicy, dateLegacy)
  /\ pc' = "done"
  /\ UNCHANGED <<browser, request, ledger, tabs, promises, batchEnd, extractedValues,
                 tabsWithValues, moveList, targetIndex, moves, result>>

\* the list that was sorted under the key with the direction 'asc' is handed to
\* stableSort once more, the key now with the direction 'desc'
FlipDirection ==
  /\ op = "reverse"
  /\ pc = "done"
  /\ previous = <<>>
  /\ previous' = sortedTabs
  /\ sortKeys' = <<[sortKeys[1] EXCEPT !.direction = "desc"]>>
  /\ sortedTabs' = <<>>
  /\ pc' = "sorting"
  /\ UNCHANGED <<browser, op, urlRegex, keepPinnedStatic, missingValuePolicy, responses, extras,
                 tabs, promises, batchEnd, extractedValues, tabsWithValues, moveList,
                 targetIndex, moves, result>>

\* the tabs that were sorted in the order of their indices are handed to
\* stableSort once more, in another order (tabs)
HandOverPermuted ==
  /\ op = "permute"
  /\ pc = "done"
  /\ previous = <<>>
  /\ previous' = sortedTabs
  /\ tabsWithValues' = tabs
  /\ sortedTabs' = <<>>
  /\ pc' = "sorting"
  /\ UNCHANGED <<browser, request, responses, extras, tabs, promises, batchEnd,
                 extractedValues, moveList, targetIndex, moves, result>>

\* the user applies the sort after the preview was answered (Popup.tsx
\* handleApply): SORT_TABS with the settings of the PREVIEW_SORT request; the
\* preview's snapshot, values and returned order are kept for the comparison
ApplyAfterPreview ==
  /\ pc = "answered"
  /\ op = "preview"
  /\ result.status = "resolved"
  /\ previous = <<>>
  /\ previous' = <<[snapshot |-> tabs, values |-> extractedValues, order |-> result.tabs]>>
  /\ op' = "sort"
  /\ pc' = "start"
  /\ tabs' = <<>>
  /\ promises' = <<>>
  /\ batchEnd' = "none"
  /\ extractedValues' = <<>>
  /\ tabsWithValues' = <<>>
  /\ sortedTabs' = <<>>
  /\ moveList' = <<>>
  /\ targetIndex' = 0
  /\ moves' = <<>>
  /\ result' = NoReturn
  /\ UNCHANGED <<browser, urlRegex, sortKeys, keepPinnedStatic, missingValuePolicy,
                 responses, extras>>

(***************************************************************************)
(* Settings storage (utils/storage.ts).                                    *)
(***************************************************************************)
\* DEFAULT_SETTINGS, on the keys the model follows
DEFAULT_SETTINGS ==
  [scope |-> "currentWindow", keepPinnedStatic |-> TRUE, missingValuePolicy |-> "last"]

\* an object without keys: what chrome.storage.local holds before the first save
EmptySettings == [k \in {} |-> TRUE]

\* { ...under, ...over }
Spread(under, over) ==
  [k \in DOMAIN under \cup DOMAIN over |-> IF k \in DOMAIN over THEN over[k] ELSE under[k]]

\* getSettings: the defaults under what is stored
getSettings(storedSettings) == Spread(DEFAULT_SETTINGS, storedSettings)

Callers == {1, 2}
NoSaver == [pc |-> "idle", settings |-> EmptySettings, current |-> EmptySettings]
NoSavers == [c \in Callers |-> NoSaver]

\* no timer is followed
NoClock == [now |-> 0, inOrder |-> FALSE]

\* handleLoadUnloadedTabs has not been called
NoReloads == [pc |-> "idle", unloadedTabIds |-> <<>>, i |-> 0, reload |-> <<>>,
              loadedCount |-> 0, errors |-> <<>>, response |-> "none"]

\* saveSettings is called with a partial settings object and awaits getSettings
SaveSettingsStarts(c, settings) ==
  /\ op = "settings"
  /\ savers[c].pc = "idle"
  /\ savers' = [savers EXCEPT ![c] = [pc |-> "reading", settings |-> settings,
                                      current |-> EmptySettings]]
  /\ UNCHANGED <<browser, request, responses, previous, parsed, calls, rival, stored, reloads, clock,
                 pc, tabs, promises, batchEnd, extractedValues, tabsWithValues, sortedTabs,
                 moveList, targetIndex, moves, result>>

\* chrome.storage.local.get resolves: saveSettings has its copy of the settings
\* and issues chrome.storage.local.set with the merged object
GetSettingsResolves(c) ==
  /\ savers[c].pc = "reading"
  /\ savers' = [savers EXCEPT ![c].current = getSettings(stored), ![c].pc = "writing"]
  /\ UNCHANGED <<browser, request, responses, previous, parsed, calls, rival, stored, reloads, clock,
                 pc, tabs, promises, batchEnd, extractedValues, tabsWithValues, sortedTabs,
                 moveList, targetIndex, moves, result>>

\* chrome.storage.local.set stores the merged object and resolves
SetSettingsResolves(c) ==
  /\ savers[c].pc = "writing"
  /\ stored' = Spread(savers[c].current, savers[c].settings)
  /\ savers' = [savers EXCEPT ![c].pc = "saved"]
  /\ UNCHANGED <<browser, request, responses, previous, parsed, calls, rival, reloads, clock,
                 pc, tabs, promises, batchEnd, extractedValues, tabsWithValues, sortedTabs,
                 moveList, targetIndex, moves, result>>

(***************************************************************************)
(* Timers of extractValuesFromTabs (background/sortOperations.ts 133-170). *)
(***************************************************************************)
\* a per-tab timer that is set to run longer than the global one
TabTimerDelayBeyondGlobal == GLOBAL_EXTRACTION + TAB_EXTRACTION

\* line 134: the delay handed to setTimeout for a tab's timer
TabTimerDelay == TAB_EXTRACTION

\* line 168: the delay handed to setTimeout for the global timer
GlobalTimerDelay == GLOBAL_EXTRACTION

\* a tab's timer is due and has neither fired nor lost its race
TabTimerDue == clock.now >= TabTimerDelay /\ \E i \in DOMAIN promises : promises[i].state = "pending"

\* time passes up to the next deadline; when timers fire on time, no timer that is
\* due is passed over
TimePasses ==
  /\ pc = "extracting"
  /\ clock.now < GlobalTimerDelay
  /\ clock.inOrder => ~TabTimerDue
  /\ clock' = [clock EXCEPT !.now = IF clock.now < TabTimerDelay /\ TabTimerDelay < GlobalTimerDelay
                                      THEN TabTimerDelay
                                      ELSE GlobalTimerDelay]
  /\ UNCHANGED <<browser, request, responses, previous, parsed, calls, rival, stored, savers,
                 reloads, pc, tabs, promises, batchEnd, extractedValues, tabsWithValues,
                 sortedTabs, moveList, targetIndex, moves, result>>

\* the tab's timer fires: on time no sooner than its delay after the launch
TabTimerFires(i) ==
  /\ clock.inOrder => clock.now >= TabTimerDelay
  /\ TabTimeout(i)

\* the global timer fires: on time no sooner than its delay after the launch
GlobalTimerFires ==
  /\ clock.inOrder => clock.now >= GlobalTimerDelay
  /\ GlobalTimeout

(***************************************************************************)
(* handleLoadUnloadedTabs (background/messageHandlers.ts 144-190).         *)
(***************************************************************************)
\* every tab from position i on, not cut into batches
batchOfAllLeft(unloadedTabIds, i) == {k \in 1..Len(unloadedTabIds) : i < k}

\* line 160: unloadedTabIds.slice(i, i + LIMITS.TAB_LOAD_BATCH_SIZE), as the set of
\* the positions (counted from 1) it takes
batch(unloadedTabIds, i) ==
  {k \in 1..Len(unloadedTabIds) : i < k /\ k <= i + TAB_LOAD_BATCH_SIZE}

\* lines 162-171: batch.map starts chrome.tabs.reload for every tab of the batch
\* before Promise.all is awaited
StartBatch(r, i) ==
  [r EXCEPT !.pc = "batch",
            !.i = i,
            !.reload = [k \in DOMAIN r.reload |->
                          IF k \in batch(r.unloadedTabIds, i) THEN "inFlight" ELSE r.reload[k]]]

\* lines 162-176: Promise.all resolves once every callback of the batch has
\* returned; the loop then waits BATCH_DELAY when tabs are left, and leaves otherwise
AfterReload(r) ==
  IF \E k \in DOMAIN r.reload : r.reload[k] = "inFlight"
    THEN r
    ELSE [r EXCEPT !.pc = IF r.i + TAB_LOAD_BATCH_SIZE < Len(r.unloadedTabIds)
                            THEN "batchDelay"
                            ELSE "postLoadDelay"]

LoadUnchanged ==
  UNCHANGED <<browser, request, responses, previous, parsed, calls, rival, stored, savers,
              clock, pc, tabs, promises, batchEnd, extractedValues, tabsWithValues,
              sortedTabs, moveList, targetIndex, moves, result>>

\* lines 145-160: the unloaded tabs of the window are collected; without any the
\* handler returns at once, otherwise the first batch is started
LoadUnloadedTabsStarts ==
  /\ op = "load"
  /\ reloads.pc = "idle"
  /\ LET unloadedTabIds == strip
     IN reloads' =
          IF Len(unloadedTabIds) = 0
            THEN [reloads EXCEPT !.pc = "returned", !.response = "success"]
            ELSE StartBatch([reloads EXCEPT !.unloadedTabIds = unloadedTabIds,
                                            !.reload = [k \in DOMAIN unloadedTabIds |-> "waiting"]],
                            0)
  /\ LoadUnchanged

\* lines 163-165: chrome.tabs.reload(tabId) resolves
ReloadResolves(k) ==
  /\ reloads.pc = "batch"
  /\ reloads.reload[k] = "inFlight"
  /\ reloads' = AfterReload([reloads EXCEPT !.reload[k] = "loaded",
                                            !.loadedCount = @ + 1])
  /\ LoadUnchanged

\* lines 166-170: chrome.tabs.reload(tabId) rejects and the callback's catch notes
\* the failure
ReloadRejects(k) ==
  /\ reloads.pc = "batch"
  /\ reloads.reload[k] = "inFlight"
  /\ reloads' = AfterReload([reloads EXCEPT !.reload[k] = "failed",
                                            !.errors = Append(@, reloads.unloadedTabIds[k])])
  /\ LoadUnchanged

\* lines 159 and 174-176: BATCH_DELAY is over and the loop goes on with i + 3
BatchDelayOver ==
  /\ reloads.pc = "batchDelay"
  /\ reloads' = StartBatch(reloads, reloads.i + TAB_LOAD_BATCH_SIZE)
  /\ LoadUnchanged

\* lines 179-189: POST_LOAD_DELAY is over and the handler returns
PostLoadDelayOver ==
  /\ reloads.pc = "postLoadDelay"
  /\ reloads' = [reloads EXCEPT !.pc = "returned",
                                !.response = IF reloads.loadedCount > 0 THEN "success" ELSE "failure"]
  /\ LoadUnchanged

(***************************************************************************)
(* Inputs.                                                                 *)
(***************************************************************************)
Text5 == <<"5">>
Text12 == <<"1", "2">>
TextAbc == <<"a", "b", "c">>

Policies == {"last", "first", "error"}
ParseTypes == {"number", "price", "date", "text"}
Directions == {"asc", "desc"}

SortKey(selector, parseAs, direction) ==
  [selector |-> selector, parseAs |-> parseAs, direction |-> direction]

\* what a tab answers to extractValueFromTab
Answers(dom) == [get |-> "ok", injected |-> TRUE, responded |-> TRUE, dom |-> dom]
Element(text) == [found |-> TRUE, text |-> text]
NoElement == [found |-> FALSE, text |-> <<>>]
TabUnloaded == [get |-> "unloaded", injected |-> FALSE, responded |-> FALSE, dom |-> NoElement]
TabRefuses == [get |-> "ok", injected |-> FALSE, responded |-> FALSE, dom |-> NoElement]
TabSilent == [get |-> "ok", injected |-> TRUE, responded |-> FALSE, dom |-> NoElement]
TabGone == [get |-> "throws", injected |-> FALSE, responded |-> FALSE, dom |-> NoElement]

PipelineEnvs == {Answers(Element(Text5)), Answers(Element(Text12))}
BatchEnvs == PipelineEnvs \cup {Answers(NoElement), TabUnloaded, TabRefuses, TabSilent, TabGone}
FanOutEnvs == {Answers(Element(Text5))}

PipelineKeyLists ==
  {<<SortKey(SelectorText, "number", d)>> : d \in Directions}

KeySpecs == {SortKey(SelectorText, p, d) : p \in ParseTypes, d \in Directions}
SortKeyLists == {<<k>> : k \in KeySpecs} \cup {<<k1, k2>> : k1 \in KeySpecs, k2 \in KeySpecs}
SortValues == {JsNull, JsText(Text5), JsText(Text12), JsText(TextAbc)}

Idle ==
  /\ promises = <<>>
  /\ batchEnd = "none"
  /\ extractedValues = <<>>
  /\ sortedTabs = <<>>
  /\ moveList = <<>>
  /\ targetIndex = 0
  /\ moves = <<>>
  /\ result = NoReturn
  /\ responses = <<>>
  /\ previous = <<>>
  /\ parsed = NullVal
  /\ calls = <<>>
  /\ rival = NoRival
  /\ stored = EmptySettings
  /\ savers = NoSavers
  /\ reloads = NoReloads
  /\ clock = NoClock

(***************************************************************************)
(* The pipeline: one SORT_TABS or PREVIEW_SORT request on a window.        *)
(***************************************************************************)
Init ==
  /\ \E n \in 1..MaxTabs : \E p \in 0..n :
       /\ strip = [i \in 1..n |-> i]
       /\ pinned = [t \in 1..n |-> t <= p]
       /\ url \in [1..n -> {ShopUrl, ChromeUrl}]
  /\ dateLegacy = FALSE
  /\ op \in {"sort", "preview"}
  /\ urlRegex = NoRegex
  /\ sortKeys \in PipelineKeyLists
  /\ keepPinnedStatic \in BOOLEAN
  /\ missingValuePolicy \in Policies
  /\ pc = "start"
  /\ tabs = <<>>
  /\ tabsWithValues = <<>>
  /\ Idle

Next ==
  \/ Collect
  \/ Launch
  \/ \E i \in DOMAIN promises : \E env \in PipelineEnvs : ExtractionResolves(i, env)
  \/ \E i \in DOMAIN promises : TabTimeout(i)
  \/ GlobalTimeout
  \/ Continue
  \/ MoveNext
  \/ Respond
  \/ \E t \in DOMAIN pinned : CloseTab(t)

Spec == Init /\ [][Next]_vars

(***************************************************************************)
(* The same SORT_TABS request sent twice in succession.                    *)
(***************************************************************************)
InitTwice ==
  /\ Init
  /\ op = "sort"
  /\ missingValuePolicy = "last"
  /\ sortKeys[1].direction = "asc"

NextTwice ==
  \/ Collect
  \/ Launch
  \/ \E i \in DOMAIN promises : \E env \in PipelineEnvs : ExtractionResolves(i, env)
  \/ \E i \in DOMAIN promises : TabTimeout(i)
  \/ GlobalTimeout
  \/ Continue
  \/ MoveNext
  \/ Respond
  \/ SortAgain

SpecTwice == InitTwice /\ [][NextTwice]_vars

(***************************************************************************)
(* One TEST_SELECTOR request on a tab of the window.                       *)
(***************************************************************************)
InitProbe ==
  /\ \E n \in 1..MaxTabs : \E p \in 0..n :
       /\ strip = [i \in 1..n |-> i]
       /\ pinned = [t \in 1..n |-> t <= p]
       /\ url \in [1..n -> {ShopUrl, ChromeUrl}]
  /\ dateLegacy = FALSE
  /\ op = "probe"
  /\ urlRegex = NoRegex
  /\ sortKeys \in {<<SortKey(s, "number", "asc")>> : s \in {SelectorText, <<>>}}
  /\ keepPinnedStatic = TRUE
  /\ missingValuePolicy = "last"
  /\ pc = "start"
  /\ tabs = <<>>
  /\ tabsWithValues = <<>>
  /\ Idle

NextProbe ==
  \/ \E t \in Range(strip) : TestSelector(t)
  \/ \E env \in BatchEnvs : ProbeResolves(env)
  \/ Respond

SpecProbe == InitProbe /\ [][NextProbe]_vars

\* the handler is run and its result is sent; nothing obliges the page to answer
FairProbe ==
  /\ SpecProbe
  /\ WF_vars(\E t \in Range(strip) : TestSelector(t))
  /\ WF_vars(Respond)

(***************************************************************************)
(* The pipeline on pages whose element holds a number, a word or nothing.  *)
(***************************************************************************)
WordEnvs == {Answers(Element(Text5)), Answers(Element(TextAbc)), Answers(NoElement)}

InitWords ==
  /\ \E n \in 1..MaxTabs :
       /\ strip = [i \in 1..n |-> i]
       /\ pinned = [t \in 1..n |-> FALSE]
       /\ url = [t \in 1..n |-> ShopUrl]
  /\ dateLegacy = FALSE
  /\ op \in {"sort", "preview"}
  /\ urlRegex = NoRegex
  /\ sortKeys \in PipelineKeyLists
  /\ keepPinnedStatic = FALSE
  /\ missingValuePolicy \in {"last", "first"}
  /\ pc = "start"
  /\ tabs = <<>>
  /\ tabsWithValues = <<>>
  /\ Idle

NextWords ==
  \/ Collect
  \/ Launch
  \/ \E i \in DOMAIN promises : \E env \in WordEnvs : ExtractionResolves(i, env)
  \/ \E i \in DOMAIN promises : TabTimeout(i)
  \/ GlobalTimeout
  \/ Continue
  \/ MoveNext
  \/ Respond

SpecWords == InitWords /\ [][NextWords]_vars

(***************************************************************************)
(* The pipeline with a URL filter typed by the user.                       *)
(***************************************************************************)
\* no filter, two patterns that compile and three that do not
UrlPatterns ==
  {NoRegex,
   <<"s", "h", "o", "p">>,
   <<"S", "T", ".", "*", "e">>,
   <<"(", "s", "h", "o", "p">>,
   <<"[", "a">>,
   <<"*", ".", "c", "o", "m">>}

InitFilter ==
  /\ \E n \in 1..MaxTabs :
       /\ strip = [i \in 1..n |-> i]
       /\ pinned = [t \in 1..n |-> FALSE]
       /\ url \in [1..n -> {ShopUrl, StoreUrl, ChromeUrl}]
  /\ dateLegacy = FALSE
  /\ op \in {"sort", "preview"}
  /\ urlRegex \in UrlPatterns
  /\ sortKeys = <<SortKey(SelectorText, "number", "asc")>>
  /\ keepPinnedStatic = FALSE
  /\ missingValuePolicy = "last"
  /\ pc = "start"
  /\ tabs = <<>>
  /\ tabsWithValues = <<>>
  /\ Idle

NextFilter ==
  \/ Collect
  \/ Launch
  \/ \E i \in DOMAIN promises : \E env \in PipelineEnvs : ExtractionResolves(i, env)
  \/ \E i \in DOMAIN promises : TabTimeout(i)
  \/ GlobalTimeout
  \/ Continue
  \/ MoveNext
  \/ Respond

SpecFilter == InitFilter /\ [][NextFilter]_vars

(***************************************************************************)
(* getTargetTabs alone, on windows holding pages of every kind.            *)
(***************************************************************************)
ExtensionUrl == ChromeExtensionPrefix \o <<"x">>
EdgeUrl == EdgePrefix \o <<"x">>
AboutUrl == AboutPrefix \o <<"x">>
FileUrl == FilePrefix \o <<"x">>
WebStoreUrl == <<"s", ":", "/", "/">> \o WebStoreHost \o <<"/", "x">>

\* the pages the collector cannot address
UnaddressableUrls == {ChromeUrl, ExtensionUrl, EdgeUrl, AboutUrl, FileUrl, WebStoreUrl}

WindowUrls == {ShopUrl, StoreUrl} \cup UnaddressableUrls

InitCollect ==
  /\ \E n \in 1..MaxTabs :
       /\ strip = [i \in 1..n |-> i]
       /\ pinned = [t \in 1..n |-> FALSE]
       /\ url \in [1..n -> WindowUrls]
  /\ dateLegacy = FALSE
  /\ op = "sort"
  /\ urlRegex \in UrlPatterns
  /\ sortKeys = <<SortKey(SelectorText, "number", "asc")>>
  /\ keepPinnedStatic = FALSE
  /\ missingValuePolicy = "last"
  /\ pc = "start"
  /\ tabs = <<>>
  /\ tabsWithValues = <<>>
  /\ Idle

NextCollect == Collect

SpecCollect == InitCollect /\ [][NextCollect]_vars


(***************************************************************************)
(***************************************************************************)
(* A SORT_TABS request overlapped by a PREVIEW_SORT request.               *)
(***************************************************************************)
InitOverlap ==
  /\ \E n \in 1..MaxTabs :
       /\ strip = [i \in 1..n |-> i]
       /\ pinned = [t \in 1..n |-> FALSE]
       /\ url = [t \in 1..n |-> ShopUrl]
  /\ dateLegacy = FALSE
  /\ op = "sort"
  /\ urlRegex = NoRegex
  /\ sortKeys \in PipelineKeyLists
  /\ keepPinnedStatic = FALSE
  /\ missingValuePolicy = "last"
  /\ pc = "start"
  /\ tabs = <<>>
  /\ tabsWithValues = <<>>
  /\ Idle

NextOverlap ==
  \/ Collect
  \/ Launch
  \/ \E i \in DOMAIN promises : \E env \in PipelineEnvs : ExtractionResolves(i, env)
  \/ \E i \in DOMAIN promises : TabTimeout(i)
  \/ GlobalTimeout
  \/ Continue
  \/ MoveNext
  \/ Respond
  \/ RivalStarts
  \/ RivalReturns

SpecOverlap == InitOverlap /\ [][NextOverlap]_vars

(***************************************************************************)
(* parseValue alone, on every short text over a small alphabet.            *)
(***************************************************************************)
ParseAlphabet == {"1", ".", ",", " ", "a"}

\* a price with two thousands separators, as a page shows it
LongPrice == <<"$", "1", ",", "2", "3", "4", ",", "5", "6", "7", ".", "5">>

ParseTexts ==
  UNION {[1..n -> ParseAlphabet] : n \in 0..MaxTextLen} \cup {LongPrice}

\* null (or undefined), or a text
ParseInputs == {JsNull} \cup {JsText(t) : t \in ParseTexts}

InitParse ==
  /\ strip = <<1>>
  /\ pinned = <<FALSE>>
  /\ url = <<ShopUrl>>
  /\ \E value \in ParseInputs :
       tabsWithValues = <<[id |-> 1, index |-> 0, pinned |-> FALSE, extractedValue |-> value]>>
  /\ \E p \in ParseTypes : sortKeys = <<SortKey(SelectorText, p, "asc")>>
  /\ dateLegacy = FALSE
  /\ op = "parse"
  /\ urlRegex = NoRegex
  /\ keepPinnedStatic = TRUE
  /\ missingValuePolicy = "last"
  /\ pc = "parsing"
  /\ tabs = <<>>
  /\ Idle

NextParse == ParseStep

SpecParse == InitParse /\ [][NextParse]_vars

(***************************************************************************)
(* extractValuesFromTabs alone, on a list of tabs.                         *)
(***************************************************************************)
InitBatch ==
  /\ \E n \in 1..MaxBatchTabs :
       /\ strip = [i \in 1..n |-> i]
       /\ pinned = [t \in 1..n |-> FALSE]
       /\ url = [t \in 1..n |-> ShopUrl]
       /\ tabs = [i \in 1..n |-> [id |-> i, index |-> i - 1, pinned |-> FALSE, url |-> ShopUrl]]
  /\ dateLegacy = FALSE
  /\ op = "extract"
  /\ urlRegex = NoRegex
  /\ sortKeys \in {<<SortKey(s, "number", "asc")>> : s \in {SelectorText, <<>>}}
  /\ keepPinnedStatic = TRUE
  /\ missingValuePolicy = "last"
  /\ pc = "launch"
  /\ tabsWithValues = <<>>
  /\ Idle

NextBatch ==
  \/ Launch
  \/ \E i \in DOMAIN promises : \E env \in BatchEnvs : ExtractionResolves(i, env)
  \/ \E i \in DOMAIN promises : TabTimeout(i)
  \/ GlobalTimeout

SpecBatch == InitBatch /\ [][NextBatch]_vars

\* the batch is started and the global timer fires when its time has come
FairBatch ==
  /\ SpecBatch
  /\ WF_vars(Launch)
  /\ WF_vars(GlobalTimeout)

(***************************************************************************)
(* extractValuesFromTabs on more tabs than the concurrency bound.          *)
(***************************************************************************)
FanOutTabs == CONCURRENT_INJECTIONS + 1

InitFanOut ==
  /\ strip = [i \in 1..FanOutTabs |-> i]
  /\ pinned = [t \in 1..FanOutTabs |-> FALSE]
  /\ url = [t \in 1..FanOutTabs |-> ShopUrl]
  /\ tabs = [i \in 1..FanOutTabs |-> [id |-> i, index |-> i - 1, pinned |-> FALSE, url |-> ShopUrl]]
  /\ dateLegacy = FALSE
  /\ op = "extract"
  /\ urlRegex = NoRegex
  /\ sortKeys = <<SortKey(SelectorText, "number", "asc")>>
  /\ keepPinnedStatic = TRUE
  /\ missingValuePolicy = "last"
  /\ pc = "launch"
  /\ tabsWithValues = <<>>
  /\ Idle

NextFanOut ==
  \/ Launch
  \/ \E i \in DOMAIN promises : \E env \in FanOutEnvs : ExtractionResolves(i, env)
  \/ \E i \in DOMAIN promises : TabTimeout(i)
  \/ GlobalTimeout

SpecFanOut == InitFanOut /\ [][NextFanOut]_vars

(***************************************************************************)
(* createComparator and stableSort alone, on a list of tabs with values.   *)
(***************************************************************************)
InitSort ==
  /\ \E n \in 1..MaxSortTabs :
       /\ strip = [i \in 1..n |-> i]
       /\ pinned = [t \in 1..n |-> FALSE]
       /\ url = [t \in 1..n |-> ShopUrl]
       /\ \E values \in [1..n -> SortValues] :
            tabsWithValues = [i \in 1..n |->
              [id |-> i, index |-> i - 1, pinned |-> FALSE, extractedValue |-> values[i]]]
  /\ sortKeys \in SortKeyLists
  /\ dateLegacy \in (IF \E i \in DOMAIN sortKeys : sortKeys[i].parseAs = "date"
                       THEN BOOLEAN ELSE {FALSE})
  /\ op = "compare"
  /\ urlRegex = NoRegex
  /\ keepPinnedStatic = TRUE
  /\ missingValuePolicy \in Policies
  /\ pc = "sorting"
  /\ tabs = <<>>
  /\ Idle

NextSort == SortStep

SpecSort == InitSort /\ [][NextSort]_vars

(***************************************************************************)
(* createComparator and stableSort on prices a fraction of a cent apart.   *)
(***************************************************************************)
PriceTexts ==
  {<<"$", "1">>,
   <<"$", "1", ".", "0", "0", "1">>,
   <<"$", "1", ".", "0", "0", "4">>,
   <<"$", "1", ".", "0", "0", "6">>,
   <<"$", "1", ".", "0", "1">>}

InitPrices ==
  /\ \E n \in 1..MaxSortTabs :
       /\ strip = [i \in 1..n |-> i]
       /\ pinned = [t \in 1..n |-> FALSE]
       /\ url = [t \in 1..n |-> ShopUrl]
       /\ \E values \in [1..n -> PriceTexts] :
            tabsWithValues = [i \in 1..n |->
              [id |-> i, index |-> i - 1, pinned |-> FALSE,
               extractedValue |-> JsText(values[i])]]
  /\ \E d \in Directions : sortKeys = <<SortKey(SelectorText, "price", d)>>
  /\ dateLegacy = FALSE
  /\ op = "compare"
  /\ urlRegex = NoRegex
  /\ keepPinnedStatic = TRUE
  /\ missingValuePolicy = "last"
  /\ pc = "sorting"
  /\ tabs = <<>>
  /\ Idle

NextPrices == SortStep

SpecPrices == InitPrices /\ [][NextPrices]_vars

(***************************************************************************)
(* stableSort under one key, in both directions, on the same list.         *)
(***************************************************************************)
Text05 == <<"0", "5">>
ReverseValues == SortValues \cup {JsText(Text05)}

InitReverse ==
  /\ \E n \in 1..MaxSortTabs :
       /\ strip = [i \in 1..n |-> i]
       /\ pinned = [t \in 1..n |-> FALSE]
       /\ url = [t \in 1..n |-> ShopUrl]
       /\ \E values \in [1..n -> ReverseValues] :
            tabsWithValues = [i \in 1..n |->
              [id |-> i, index |-> i - 1, pinned |-> FALSE, extractedValue |-> values[i]]]
  /\ sortKeys \in {<<SortKey(SelectorText, p, "asc")>> : p \in ParseTypes}
  /\ dateLegacy \in (IF sortKeys[1].parseAs = "date" THEN BOOLEAN ELSE {FALSE})
  /\ op = "reverse"
  /\ urlRegex = NoRegex
  /\ keepPinnedStatic = TRUE
  /\ missingValuePolicy \in Policies
  /\ pc = "sorting"
  /\ tabs = <<>>
  /\ Idle

NextReverse ==
  \/ SortStep
  \/ FlipDirection

SpecReverse == InitReverse /\ [][NextReverse]_vars

(***************************************************************************)
(* stableSort on the same tabs handed over in every order.                 *)
(***************************************************************************)
PermuteSizes == {1, 2, 3}
PermuteKeys == {SortKey(SelectorText, p, d) : p \in {"number", "text"}, d \in Directions}
PermuteKeyLists == {<<k>> : k \in PermuteKeys} \cup {<<k1, k2>> : k1 \in PermuteKeys, k2 \in PermuteKeys}

InitPermute ==
  /\ \E n \in PermuteSizes :
       /\ strip = [i \in 1..n |-> i]
       /\ pinned = [t \in 1..n |-> FALSE]
       /\ url = [t \in 1..n |-> ShopUrl]
       /\ \E values \in [1..n -> SortValues] :
          \E order \in {f \in [1..n -> 1..n] : \A i \in 1..n : \E j \in 1..n : f[j] = i} :
            /\ tabsWithValues = [i \in 1..n |->
                 [id |-> i, index |-> i - 1, pinned |-> FALSE, extractedValue |-> values[i]]]
            /\ tabs = [i \in 1..n |->
                 [id |-> order[i], index |-> order[i] - 1, pinned |-> FALSE,
                  extractedValue |-> values[order[i]]]]
  /\ sortKeys \in PermuteKeyLists
  /\ dateLegacy = FALSE
  /\ op = "permute"
  /\ urlRegex = NoRegex
  /\ keepPinnedStatic = TRUE
  /\ missingValuePolicy \in Policies
  /\ pc = "sorting"
  /\ Idle

NextPermute ==
  \/ SortStep
  \/ HandOverPermuted

SpecPermute == InitPermute /\ [][NextPermute]_vars

(***************************************************************************)
(* A PREVIEW_SORT request followed by the SORT_TABS request that applies it.*)
(***************************************************************************)
InitApply ==
  /\ \E n \in 1..MaxTabs :
       /\ strip = [i \in 1..n |-> i]
       /\ pinned = [t \in 1..n |-> FALSE]
       /\ url = [t \in 1..n |-> ShopUrl]
  /\ dateLegacy = FALSE
  /\ op = "preview"
  /\ urlRegex = NoRegex
  /\ sortKeys \in PipelineKeyLists
  /\ keepPinnedStatic = FALSE
  /\ missingValuePolicy \in {"last", "first"}
  /\ pc = "start"
  /\ tabs = <<>>
  /\ tabsWithValues = <<>>
  /\ Idle

NextApply ==
  \/ Collect
  \/ Launch
  \/ \E i \in DOMAIN promises : \E env \in PipelineEnvs : ExtractionResolves(i, env)
  \/ \E i \in DOMAIN promises : TabTimeout(i)
  \/ GlobalTimeout
  \/ Continue
  \/ MoveNext
  \/ Respond
  \/ ApplyAfterPreview

SpecApply == InitApply /\ [][NextApply]_vars

(***************************************************************************)
(* A PREVIEW_SORT request with two keys on pages with two elements.        *)
(***************************************************************************)
\* ".name"
SelectorName == <<".", "n", "a", "m", "e">>

\* the text a tab's page holds under a selector
PageText(t, selector) ==
  IF selector = SelectorText
    THEN (CASE t = 1 -> Text12 [] t = 2 -> TextAbc [] OTHER -> Text5)
    ELSE (CASE t = 1 -> TextAbc [] t = 2 -> Text5 [] OTHER -> Text12)

TwoKeySpecs ==
  {SortKey(s, p, d) : s \in {SelectorText, SelectorName}, p \in {"number", "text"}, d \in Directions}

InitKeys ==
  /\ \E n \in 1..MaxTabs :
       /\ strip = [i \in 1..n |-> i]
       /\ pinned = [t \in 1..n |-> FALSE]
       /\ url = [t \in 1..n |-> ShopUrl]
  /\ dateLegacy = FALSE
  /\ op = "preview"
  /\ urlRegex = NoRegex
  /\ sortKeys \in {<<k1, k2>> : k1 \in TwoKeySpecs, k2 \in TwoKeySpecs}
  /\ keepPinnedStatic = TRUE
  /\ missingValuePolicy \in {"last", "first"}
  /\ pc = "start"
  /\ tabs = <<>>
  /\ tabsWithValues = <<>>
  /\ Idle

\* each page answers the EXTRACT_VALUE message with the text it holds under
\* the selector of the message, which is that of sortKeys[0] (lines 27 and 73)
NextKeys ==
  \/ Collect
  \/ Launch
  \/ \E i \in DOMAIN promises :
       ExtractionResolves(i, Answers(Element(PageText(tabs[i].id, sortKeys[1].selector))))
  \/ \E i \in DOMAIN promises : TabTimeout(i)
  \/ GlobalTimeout
  \/ Continue
  \/ Respond

SpecKeys == InitKeys /\ [][NextKeys]_vars

(***************************************************************************)
(* Two callers of saveSettings (popup, options page, background).          *)
(***************************************************************************)
PartialSettings ==
  {[keepPinnedStatic |-> FALSE], [missingValuePolicy |-> "first"],
   [missingValuePolicy |-> "error"], [scope |-> "allWindows"],
   [keepPinnedStatic |-> FALSE, scope |-> "allWindows"]}

InitSettings ==
  /\ strip = <<>>
  /\ pinned = <<>>
  /\ url = <<>>
  /\ dateLegacy = FALSE
  /\ op = "settings"
  /\ urlRegex = NoRegex
  /\ sortKeys = <<>>
  /\ keepPinnedStatic = TRUE
  /\ missingValuePolicy = "last"
  /\ pc = "none"
  /\ tabs = <<>>
  /\ tabsWithValues = <<>>
  /\ promises = <<>>
  /\ batchEnd = "none"
  /\ extractedValues = <<>>
  /\ sortedTabs = <<>>
  /\ moveList = <<>>
  /\ targetIndex = 0
  /\ moves = <<>>
  /\ result = NoReturn
  /\ responses = <<>>
  /\ previous = <<>>
  /\ parsed = NullVal
  /\ calls = <<>>
  /\ rival = NoRival
  /\ stored \in {EmptySettings, [keepPinnedStatic |-> FALSE], DEFAULT_SETTINGS}
  /\ savers = NoSavers
  /\ reloads = NoReloads
  /\ clock = NoClock

NextSettings ==
  \/ \E c \in Callers : \E settings \in PartialSettings : SaveSettingsStarts(c, settings)
  \/ \E c \in Callers : GetSettingsResolves(c)
  \/ \E c \in Callers : SetSettingsResolves(c)

SpecSettings == InitSettings /\ [][NextSettings]_vars

(***************************************************************************)
(* One batch with its timers: on time (in deadline order) or at any time.  *)
(***************************************************************************)
InitTimed ==
  /\ \E n \in 1..MaxBatchTabs :
       /\ strip = [i \in 1..n |-> i]
       /\ pinned = [t \in 1..n |-> FALSE]
       /\ url = [t \in 1..n |-> ShopUrl]
       /\ tabs = [i \in 1..n |-> [id |-> i, index |-> i - 1, pinned |-> FALSE, url |-> ShopUrl]]
  /\ dateLegacy = FALSE
  /\ op = "extract"
  /\ urlRegex = NoRegex
  /\ sortKeys \in {<<SortKey(s, "number", "asc")>> : s \in {SelectorText, <<>>}}
  /\ keepPinnedStatic = TRUE
  /\ missingValuePolicy = "last"
  /\ pc = "launch"
  /\ tabsWithValues = <<>>
  /\ promises = <<>>
  /\ batchEnd = "none"
  /\ extractedValues = <<>>
  /\ sortedTabs = <<>>
  /\ moveList = <<>>
  /\ targetIndex = 0
  /\ moves = <<>>
  /\ result = NoReturn
  /\ responses = <<>>
  /\ previous = <<>>
  /\ parsed = NullVal
  /\ calls = <<>>
  /\ rival = NoRival
  /\ stored = EmptySettings
  /\ savers = NoSavers
  /\ reloads = NoReloads
  /\ clock \in {[now |-> 0, inOrder |-> o] : o \in BOOLEAN}

NextTimed ==
  \/ Launch
  \/ TimePasses
  \/ \E i \in DOMAIN promises : \E env \in BatchEnvs : ExtractionResolves(i, env)
  \/ \E i \in DOMAIN promises : TabTimerFires(i)
  \/ GlobalTimerFires

SpecTimed == InitTimed /\ [][NextTimed]_vars

(***************************************************************************)
(* One call of handleLoadUnloadedTabs on a window of unloaded tabs.        *)
(***************************************************************************)
InitLoad ==
  /\ \E n \in 0..MaxUnloaded :
       /\ strip = [i \in 1..n |-> i]
       /\ pinned = [t \in 1..n |-> FALSE]
       /\ url = [t \in 1..n |-> ShopUrl]
  /\ dateLegacy = FALSE
  /\ op = "load"
  /\ urlRegex = NoRegex
  /\ sortKeys = <<>>
  /\ keepPinnedStatic = TRUE
  /\ missingValuePolicy = "last"
  /\ pc = "none"
  /\ tabs = <<>>
  /\ tabsWithValues = <<>>
  /\ Idle

NextLoad ==
  \/ LoadUnloadedTabsStarts
  \/ \E k \in DOMAIN reloads.reload : ReloadResolves(k)
  \/ \E k \in DOMAIN reloads.reload : ReloadRejects(k)
  \/ BatchDelayOver
  \/ PostLoadDelayOver

SpecLoad == InitLoad /\ [][NextLoad]_vars

(***************************************************************************)
(* Properties of the comparator and of stableSort.                         *)
(***************************************************************************)
\* the position of tab id in a list of tabs
PositionOf(tabList, id) == CHOOSE i \in 1..Len(tabList) : tabList[i].id = id

\* the value the comparator sees for a tab under a key
Parsed(tab, key) == parseValue(tab.extractedValue, key.parseAs, dateLegacy)

TiedOn(key, a, b) ==
  \/ Parsed(a, key) = NullVal /\ Parsed(b, key) = NullVal
  \/ /\ Parsed(a, key) # NullVal
     /\ Parsed(b, key) # NullVal
     /\ CompareValues(key, Parsed(a, key), Parsed(b, key)) = 0

FullyTied(a, b) == \A k \in DOMAIN sortKeys : TiedOn(sortKeys[k], a, b)

Sorted == op = "compare" /\ pc = "done"

\* C1: two tabs that tie on every key (both values missing, or equal) stand in
\* the sorted list in the order they had in the collected snapshot
C1_TiesKeepCollectedOrder ==
  Sorted =>
    \A i \in DOMAIN tabsWithValues : \A j \in DOMAIN tabsWithValues :
      (i < j /\ FullyTied(tabsWithValues[i], tabsWithValues[j]))
        => PositionOf(sortedTabs, tabsWithValues[i].id)
             < PositionOf(sortedTabs, tabsWithValues[j].id)

\* a sorted list that differs from the snapshot and holds two tabs with equal
\* present values on every key, and two tabs that both miss every key
C1_Witness ==
  /\ Sorted
  /\ sortedTabs # tabsWithValues
  /\ Len(sortKeys) = 2
  /\ \E i \in DOMAIN tabsWithValues : \E j \in DOMAIN tabsWithValues :
       /\ i < j
       /\ FullyTied(tabsWithValues[i], tabsWithValues[j])
       /\ \A k \in DOMAIN sortKeys : Parsed(tabsWithValues[i], sortKeys[k]) # NullVal
       /\ PositionOf(sortedTabs, tabsWithValues[j].id) # j

\* C3: under the policy "last" and for either direction of the key, every tab
\* whose value parses to null under the (first) key stands after every tab whose
\* value parses to a value
C3_MissingLast ==
  (Sorted /\ missingValuePolicy = "last") =>
    \A i \in DOMAIN sortedTabs : \A j \in DOMAIN sortedTabs :
      (/\ Parsed(sortedTabs[i], sortKeys[1]) = NullVal
       /\ Parsed(sortedTabs[j], sortKeys[1]) # NullVal) => j < i

\* a descending key, a missing value collected before a present one, and two
\* present values that the key puts in the other order
C3_Witness ==
  /\ Sorted
  /\ missingValuePolicy = "last"
  /\ sortKeys[1].direction = "desc"
  /\ Len(tabsWithValues) = 3
  /\ Parsed(tabsWithValues[1], sortKeys[1]) = NullVal
  /\ Parsed(tabsWithValues[2], sortKeys[1]) # NullVal
  /\ Parsed(tabsWithValues[3], sortKeys[1]) # NullVal
  /\ sortedTabs[1].id = 3
  /\ sortedTabs[3].id = 1

(***************************************************************************)
(* Properties of performSort and moveTabs.                                 *)
(***************************************************************************)
NoTabClosed == Len(strip) = Cardinality(DOMAIN pinned)

\* the number of pinned tabs of the window
PinnedCount == Cardinality({t \in Range(strip) : pinned[t]})

SortCompleted == op = "sort" /\ pc = "done" /\ result.status = "resolved"

\* C2: after performSort with keepPinnedStatic has completed without a failed
\* move, the collected unpinned tabs stand at the consecutive indices from the
\* number of pinned tabs of the window on, in sorted order
C2_UnpinnedSortedAfterPinned ==
  (SortCompleted /\ keepPinnedStatic /\ NoTabClosed) =>
    LET placed == MoveList(sortedTabs, TRUE)
    IN \A k \in 1..Len(placed) :
         /\ PinnedCount + k <= Len(strip)
         /\ strip[PinnedCount + k] = placed[k]

\* a pinned tab that was not collected, and two collected unpinned tabs that the
\* sort exchanges: they end in their old order
C2_Witness ==
  /\ SortCompleted /\ keepPinnedStatic /\ NoTabClosed
  /\ Len(strip) = 3
  /\ pinned[1] /\ url[1] = ChromeUrl
  /\ Ids(tabs) = <<2, 3>>
  /\ Ids(sortedTabs) = <<3, 2>>
  /\ moves = <<[tabId |-> 3, index |-> 0, ok |-> TRUE], [tabId |-> 2, index |-> 1, ok |-> TRUE]>>
  /\ strip = <<1, 2, 3>>

\* C4: during and after performSort with keepPinnedStatic, the pinned tabs of
\* the window stand at the leading indices in the order they had before the
\* call (ascending id), and no move is issued for a pinned tab
C4_PinnedStatic ==
  (op = "sort" /\ keepPinnedStatic) =>
    /\ \A i \in 1..Len(strip) :
         pinned[strip[i]] => \A j \in 1..(i - 1) : pinned[strip[j]] /\ strip[j] < strip[i]
    /\ \A m \in DOMAIN moves : ~pinned[moves[m].tabId]

\* two collected pinned tabs whose values the sort exchanges, and a move issued
\* for the unpinned tab
C4_Witness ==
  /\ SortCompleted /\ keepPinnedStatic /\ NoTabClosed
  /\ Ids(tabs) = <<1, 2, 3>>
  /\ pinned[1] /\ pinned[2] /\ ~pinned[3]
  /\ PositionOf(sortedTabs, 2) < PositionOf(sortedTabs, 1)
  /\ moves # <<>>
  /\ strip = <<1, 2, 3>>

(***************************************************************************)
(* Properties of extractValuesFromTabs.                                    *)
(***************************************************************************)
BatchReturned == pc = "extracted"

IsTimeoutNote(notes) == Includes(notes, TimedOutWords) \/ Includes(notes, TimeoutWord)

\* the tabs whose extraction has been started and has not resolved
InFlight == {i \in DOMAIN promises : promises[i].state = "pending"}

\* the entry of a tab whose extraction did not resolve before the batch returned
HangingTabReported ==
  BatchReturned =>
    \A i \in DOMAIN promises :
      promises[i].by \in {"none", "timer"} =>
        /\ extractedValues[i].tabId = tabs[i].id
        /\ extractedValues[i].value = JsNull
        /\ IsTimeoutNote(extractedValues[i].notes)

\* C5: a batch in which a tab's extraction never resolves still returns, at the
\* latest when the global timer fires, and its list holds for that tab an entry
\* with a null value and a timeout diagnostic
C5_HangingTabCompletes ==
  /\ []HangingTabReported
  /\ (pc = "launch") ~> BatchReturned

\* a returned batch of three tabs, none of whose extractions resolved
C5_Witness ==
  /\ BatchReturned
  /\ Len(tabs) = 3
  /\ promises[1].by = "timer" /\ promises[2].by = "none" /\ promises[3].by = "none"
  /\ batchEnd = "globalTimeout"

\* C6: at every moment of extractValuesFromTabs, the tabs whose extraction has
\* been started and has not resolved number at most CONCURRENT_INJECTIONS
C6_BoundedInFlight == Cardinality(InFlight) <= CONCURRENT_INJECTIONS

\* more tabs than the bound, all in flight at once
C6_Witness ==
  /\ pc = "extracting"
  /\ Len(tabs) = CONCURRENT_INJECTIONS + 1
  /\ InFlight = DOMAIN promises

C8_OneResultPerTab ==
  BatchReturned =>
    /\ Len(extractedValues) = Len(tabs)
    /\ \A i \in DOMAIN tabs : extractedValues[i].tabId = tabs[i].id

\* a returned batch of three tabs: the page of tab 1 answered with a value, the
\* extraction of tab 2 met a closed tab, the timer of tab 3 fired
C8_Witness ==
  /\ BatchReturned /\ batchEnd = "allSettled"
  /\ Len(tabs) = 3
  /\ promises[1].by = "extraction" /\ extractedValues[1].value = JsText(Text12)
  /\ promises[2].by = "extraction"
  /\ extractedValues[2].notes = ExtractionErrorPrefix \o NoTabErrorText
  /\ promises[3].by = "timer"

OneMissingMet ==
  \E i \in DOMAIN tabsWithValues : \E j \in DOMAIN tabsWithValues :
    /\ Parsed(tabsWithValues[i], sortKeys[1]) = NullVal
    /\ Parsed(tabsWithValues[j], sortKeys[1]) # NullVal

\* C10: under the policy "error", a sort in which a comparison meets exactly one
\* missing value ends in a failure and not in a result
C10_ErrorPolicyFails ==
  (op \in {"sort", "preview"} /\ missingValuePolicy = "error" /\ pc = "done" /\ OneMissingMet)
    => result.status = "rejected"

\* a preview under the policy "error" that resolves with the missing-valued tab
\* placed first
C10_Witness ==
  /\ op = "preview" /\ missingValuePolicy = "error" /\ pc = "done"
  /\ result.status = "resolved"
  /\ Len(sortedTabs) = 3
  /\ Parsed(sortedTabs[1], sortKeys[1]) = NullVal
  /\ Parsed(sortedTabs[2], sortKeys[1]) # NullVal
  /\ tabsWithValues[3] = sortedTabs[1]
  /\ result.tabs = Ids(sortedTabs)

(***************************************************************************)
(* Properties of two sorts in succession.                                  *)
(***************************************************************************)
\* the value extracted for a tab in a list of extraction results
ValueUnder(values, id) ==
  LET hits == {j \in 1..Len(values) : values[j].tabId = id}
  IN IF hits = {} THEN JsNull ELSE values[CHOOSE j \in hits : \A k \in hits : j <= k].value

\* the second run has completed and extracted for every tab what the first did
SecondRunCompleted ==
  /\ previous # <<>>
  /\ SortCompleted
  /\ \A t \in Range(strip) :
       ValueUnder(extractedValues, t) = ValueUnder(previous[1].values, t)

\* C11: when performSort has run twice in succession with the same settings and
\* the same extracted values, every tab stands after the second run at the index
\* it had after the first
C11_SecondRunKeepsPositions == SecondRunCompleted => strip = previous[1].strip

(***************************************************************************)
(* Properties of moveTabs.                                                 *)
(***************************************************************************)
\* some move of the operation was refused by the browser
SomeMoveFailed == \E k \in DOMAIN moves : ~moves[k].ok

\* C12: when a move of moveTabs has failed, the moves of the remaining tabs are
\* still issued and performSort completes with its result
C12_FailedMoveDoesNotAbort ==
  (op = "sort" /\ pc = "done" /\ SomeMoveFailed)
    => (moveList = <<>> /\ result.status = "resolved")

(***************************************************************************)
(* Properties of performPreview.                                           *)
(***************************************************************************)
\* the window as the request found it
InitialStrip == [i \in DOMAIN pinned |-> i]

\* C13: performPreview issues no tab move, and every tab of the window keeps
\* its position throughout the preview
C13_PreviewMovesNothing == op = "preview" => (moves = <<>> /\ strip = InitialStrip)

\* a preview that has returned an order different from the window's, with no
\* move issued
C13_Witness ==
  /\ op = "preview" /\ pc = "done" /\ result.status = "resolved"
  /\ Len(result.tabs) = 3
  /\ result.tabs # InitialStrip
  /\ moves = <<>>
  /\ strip = InitialStrip

\* the tabs moveTabs has to place: the collected tabs, without the pinned ones
\* under keepPinnedStatic
TabsToPlace ==
  {tabs[i].id : i \in {j \in DOMAIN tabs : ~(keepPinnedStatic /\ tabs[j].pinned)}}

\* C14: moveTabs issues its moves one after the other with target indices
\* ascending by one, never two moves for one tab, only for tabs to be placed, and
\* when it has completed every tab to be placed has had its move
C14_OneMovePerTabAscending ==
  /\ \A k \in DOMAIN moves : moves[k].tabId \in TabsToPlace
  /\ \A k \in DOMAIN moves : \A l \in DOMAIN moves :
       (k < l) => (moves[k].tabId # moves[l].tabId /\ moves[k].index < moves[l].index)
  /\ \A k \in DOMAIN moves : (k > 1) => moves[k].index = moves[k - 1].index + 1
  /\ SortCompleted => {moves[k].tabId : k \in DOMAIN moves} = TabsToPlace

\* a completed sort of three collected tabs, one of them pinned and kept
\* static: two moves, to the indices 1 and 2
C14_Witness ==
  /\ SortCompleted /\ keepPinnedStatic
  /\ Len(tabs) = 3
  /\ Len(moves) = 2
  /\ moves[1].index = 1 /\ moves[2].index = 2
  /\ moves[1].tabId = 3 /\ moves[2].tabId = 2

\* every collected tab's extraction has settled, or the global timeout has
\* completed the batch by force; either way every tab has its result
ExtractionOver ==
  /\ batchEnd \in {"allSettled", "globalTimeout"}
  /\ batchEnd = "allSettled" => \A i \in DOMAIN promises : promises[i].state = "fulfilled"
  /\ Len(promises) = Len(tabs)
  /\ Len(extractedValues) = Len(tabs)
  /\ \A i \in DOMAIN tabs : extractedValues[i].tabId = tabs[i].id

\* C15: no tab move is issued before every collected tab's extraction has
\* settled or been completed by force and the sorted order has been computed
\* from the extracted values
C15_NoMoveBeforeSorted ==
  (moves # <<>>)
    => /\ ExtractionOver
       /\ sortedTabs = stableSort(WithValues(tabs, extractedValues), sortKeys,
                                   missingValuePolicy, dateLegacy)
       /\ Len(sortedTabs) = Len(tabs)

\* the first move of a sort whose three extractions ended in three ways: by the
\* tab's timer, by an answer, by an answer
C15_Witness ==
  /\ op = "sort" /\ Len(moves) = 1 /\ pc = "moving"
  /\ Len(tabs) = 3
  /\ batchEnd = "allSettled"
  /\ promises[1].by = "timer"
  /\ promises[2].by = "extraction"
  /\ promises[3].by = "extraction"
  /\ Ids(sortedTabs) = <<3, 2, 1>>

(***************************************************************************)
(* Properties of extractValueFromTab called by the TEST_SELECTOR handler.  *)
(***************************************************************************)
\* C16: every call of extractValueFromTab eventually resolves; here the call
\* made by the TEST_SELECTOR handler
C16_ProbeAlwaysResolves == (pc = "probing") ~> (pc = "done")

(***************************************************************************)
(* Properties of the answer to a SORT_TABS or PREVIEW_SORT request.        *)
(***************************************************************************)
\* C17: a SORT_TABS or PREVIEW_SORT request under a policy other than "error"
\* is answered once, and the answer is a result {tabs, errors}
C17_AnsweredOnceStructured ==
  (op \in {"sort", "preview"} /\ missingValuePolicy # "error")
    => /\ Len(responses) <= 1
       /\ pc = "answered" => (Len(responses) = 1 /\ responses[1].kind = "result")

(***************************************************************************)
(* Properties of the error list of a result.                               *)
(***************************************************************************)
\* the result's error list has an entry with a note for the tab
Reported(id) ==
  \E k \in DOMAIN result.errors :
    result.errors[k].tabId = id /\ result.errors[k].error # <<>>

\* C18: in a result, every tab whose value the comparator treated as missing
\* has an entry with a note in the error list
C18_MissingTabsReported ==
  (op \in {"sort", "preview"} /\ pc = "done" /\ result.status = "resolved")
    => \A i \in DOMAIN tabsWithValues :
         Parsed(tabsWithValues[i], sortKeys[1]) = NullVal => Reported(tabsWithValues[i].id)

(***************************************************************************)
(* Properties of the URL filter.                                           *)
(***************************************************************************)
\* what chrome.tabs.query returned when the request arrived
InitialQuery ==
  [i \in DOMAIN pinned |-> [id |-> i, index |-> i - 1, pinned |-> pinned[i], url |-> url[i]]]

\* C19: with a URL pattern that does not compile, getTargetTabs returns the list
\* it returns with no filter, and the operation goes on without a failure
C19_InvalidRegexNoFilter ==
  (RegExpThrows(urlRegex) /\ pc # "start")
    => /\ tabs = getTargetTabs(InitialQuery, NoRegex)
       /\ result.status # "rejected"

\* a sort under the pattern "(shop" that has completed on the shop tab and the
\* store tab alike, the chrome:// tab left out
C19_Witness ==
  /\ RegExpThrows(urlRegex) /\ Head(urlRegex) = "("
  /\ SortCompleted
  /\ Len(strip) = 3
  /\ url[1] = StoreUrl /\ url[2] = ChromeUrl /\ url[3] = ShopUrl
  /\ Ids(tabs) = <<1, 3>>
  /\ Len(moves) = 2

(***************************************************************************)
(* Properties of the missing-value policy "first".                         *)
(***************************************************************************)
\* C20: under the policy "first" and for either direction of the key, every tab
\* whose value is null under the (first) key stands before every tab that has a
\* value
C20_MissingFirst ==
  (Sorted /\ missingValuePolicy = "first") =>
    \A i \in DOMAIN sortedTabs : \A j \in DOMAIN sortedTabs :
      (/\ Parsed(sortedTabs[i], sortKeys[1]) = NullVal
       /\ Parsed(sortedTabs[j], sortKeys[1]) # NullVal) => i < j

\* an ascending key, a missing value collected after two present ones, which
\* the key puts in the other order
C20_Witness ==
  /\ Sorted
  /\ missingValuePolicy = "first"
  /\ sortKeys[1].direction = "asc"
  /\ Len(tabsWithValues) = 3
  /\ Parsed(tabsWithValues[1], sortKeys[1]) # NullVal
  /\ Parsed(tabsWithValues[2], sortKeys[1]) # NullVal
  /\ tabsWithValues[3].extractedValue = JsNull
  /\ Ids(sortedTabs) = <<3, 2, 1>>

(***************************************************************************)
(* Properties of getTargetTabs.                                            *)
(***************************************************************************)
\* the tabs of the window that getTargetTabs has to return
Wanted ==
  {t \in Range(strip) :
     /\ url[t] \notin UnaddressableUrls
     /\ (urlRegex = NoRegex \/ RegExpTest(urlRegex, url[t]))}

\* C21: with no filter or a filter that compiles, getTargetTabs returns exactly
\* the tabs of the window whose URL is addressable and matches the filter
\* without regard to case, in the window's order and with the index the browser
\* gave them
C21_CollectsAddressableMatches ==
  (pc # "start" /\ ~RegExpThrows(urlRegex))
    => /\ {tabs[i].id : i \in DOMAIN tabs} = Wanted
       /\ \A i \in DOMAIN tabs : tabs[i] = QueryTabs[tabs[i].index + 1]
       /\ \A i \in DOMAIN tabs : \A j \in DOMAIN tabs : i < j => tabs[i].index < tabs[j].index

\* the pattern "ST.*e" on a window holding a shop page, a Web Store page and a
\* store page: only the store page is returned, with its index 2
C21_Witness ==
  /\ pc # "start"
  /\ urlRegex # NoRegex /\ Head(urlRegex) = "S"
  /\ Len(strip) = 3
  /\ url[1] = ShopUrl /\ url[2] = WebStoreUrl /\ url[3] = StoreUrl
  /\ Len(tabs) = 1
  /\ tabs[1].id = 3 /\ tabs[1].index = 2

(***************************************************************************)
(* Properties of performSort without keepPinnedStatic.                     *)
(***************************************************************************)
\* C22: after performSort without keepPinnedStatic has completed with no failed
\* move, the collected tabs, pinned and unpinned alike, stand at the indices
\* 0, 1, 2, ... of the window in sorted order
C22_AllSortedFromZero ==
  (SortCompleted /\ ~keepPinnedStatic /\ NoTabClosed /\ ~SomeMoveFailed) =>
    \A k \in DOMAIN sortedTabs : strip[k] = sortedTabs[k].id

(***************************************************************************)
(* Properties of the value parser.                                         *)
(***************************************************************************)
\* the text handed to parseValue and the type it is parsed as
ParsedText == tabsWithValues[1].extractedValue.text
ParsedAs == sortKeys[1].parseAs

\* parseValue has returned for a text that is not blank
ParsedSomeText ==
  /\ op = "parse" /\ pc = "parsed"
  /\ ~tabsWithValues[1].extractedValue.isNull
  /\ Trim(ParsedText) # <<>>

\* s without any occurrence of c
RemoveAll(s, c) == LET NotC(x) == x # c IN SelectSeq(s, NotC)

\* C23: parsePriceValue drops every "," of the cleaned text before parsing, so
\* that the digits behind a second separator count as well
C23_PriceDropsEveryComma ==
  (ParsedSomeText /\ ParsedAs = "price")
    => parsed = parseFloat(RemoveAll(KeepChars(Trim(ParsedText), Digits \cup {".", ","}), ","))

\* the first substring of s of the form digits, or digits "." digits; <<>> if
\* s holds no digit
RECURSIVE FirstNumeral(_)
FirstNumeral(s) ==
  IF s = <<>> THEN <<>>
  ELSE IF Head(s) \in Digits
    THEN LET whole == PrefixIn(s, Digits)
             rest == SubSeq(s, Len(whole) + 1, Len(s))
             frac == IF rest # <<>> /\ Head(rest) = "." THEN PrefixIn(Tail(rest), Digits)
                     ELSE <<>>
         IN IF frac = <<>> THEN whole ELSE whole \o <<".">> \o frac
  ELSE FirstNumeral(Tail(s))

\* C24: parseNumberValue returns the value of the first substring of the form
\* digits or digits "." digits, and null only when the text holds none; dots in
\* front of the first digit do not change that
C24_NumberIsFirstNumeral ==
  (ParsedSomeText /\ ParsedAs = "number")
    => parsed = (IF FirstNumeral(Trim(ParsedText)) = <<>> THEN NullVal
                 ELSE parseFloat(FirstNumeral(Trim(ParsedText))))

\* the value handed to parseValue is null or undefined, or a text that is
\* empty or made of white space only
BlankInput ==
  \/ tabsWithValues[1].extractedValue.isNull
  \/ \A i \in DOMAIN ParsedText : ParsedText[i] = " "

Round2(n) == (n + (Scale \div 200)) \div (Scale \div 100)

\* the two tabs carry prices with the same rounded-to-2-decimal representation
SameCents(a, b) ==
  /\ Parsed(a, sortKeys[1]).t = "num"
  /\ Parsed(b, sortKeys[1]).t = "num"
  /\ Round2(Parsed(a, sortKeys[1]).n) = Round2(Parsed(b, sortKeys[1]).n)

\* C26: two tabs whose prices agree when rounded to two decimals tie on a price
\* key; with no further key they keep the order of the collected snapshot
C26_PricesTieAtCents ==
  (Sorted /\ Len(sortKeys) = 1 /\ sortKeys[1].parseAs = "price") =>
    \A i \in DOMAIN tabsWithValues : \A j \in DOMAIN tabsWithValues :
      (i < j /\ SameCents(tabsWithValues[i], tabsWithValues[j]))
        => PositionOf(sortedTabs, tabsWithValues[i].id)
             < PositionOf(sortedTabs, tabsWithValues[j].id)

(***************************************************************************)
(* Properties of overlapping invocations.                                  *)
(***************************************************************************)
\* C27: while an invocation is collecting or extracting from its snapshot, no
\* other invocation issues a tab move
C27_NoMoveWhileOtherReads ==
  rival.phase = "reading" => Len(moves) = rival.seen

\* C28: a tab whose timer fires before its extraction resolves has a null value
\* with the note 'Extraction timed out (tab may be loading)' and is counted as a
\* timeout, not as an error
C28_TimerGivesTimeoutNote ==
  \A i \in DOMAIN promises :
    promises[i].by = "timer" =>
      /\ promises[i].value.value.isNull
      /\ promises[i].value.notes = TimedOutMessage
      /\ CountedAs(promises[i].value) = "timeout"

ProbedUnloaded ==
  /\ op = "probe"
  /\ calls # <<>>
  /\ calls[1].answer = "unloaded"

\* C29: for a discarded or unloaded tab extractValueFromTab returns a null value
\* with the 'Tab not loaded' note, and has neither injected a script into the
\* tab nor sent it a message
C29_UnloadedTabLeftAlone ==
  ProbedUnloaded =>
    /\ extractedValues[1].value.isNull
    /\ extractedValues[1].notes = TabNotLoadedMessage
    /\ \A i \in DOMAIN calls : calls[i].call \notin {"executeScript", "sendMessage"}

C29_Witness ==
  /\ ProbedUnloaded
  /\ pc = "answered"
  /\ calls = <<Call("tabs.get", "unloaded")>>

\* key k is the first key of the list on which a and b do not tie
FirstUntied(k, a, b) ==
  /\ ~TiedOn(sortKeys[k], a, b)
  /\ \A e \in 1..(k - 1) : TiedOn(sortKeys[e], a, b)

\* what key k alone says of a before b
KeyVerdict(k, a, b) == CompareKey(sortKeys[k], missingValuePolicy, dateLegacy, a, b)

\* C30: with several keys, a pair of tabs stands in the order given by the first
\* key of the list on which the two do not tie, whatever the later keys say; a
\* later key decides only when every earlier key ties
C30_FirstUntiedKeyDecides ==
  Sorted =>
    \A i \in DOMAIN sortedTabs : \A j \in DOMAIN sortedTabs :
      \A k \in DOMAIN sortKeys :
        (i < j /\ FirstUntied(k, sortedTabs[i], sortedTabs[j]))
          => KeyVerdict(k, sortedTabs[i], sortedTabs[j]) < 0

\* two keys; one pair is put by the first key in the order the second key
\* would turn around, another pair ties on the first key and is put by the
\* second key in the order opposite to the collected one
C30_Witness ==
  /\ Sorted
  /\ Len(sortKeys) = 2
  /\ \E i \in DOMAIN sortedTabs : \E j \in DOMAIN sortedTabs :
       /\ i < j
       /\ FirstUntied(1, sortedTabs[i], sortedTabs[j])
       /\ KeyVerdict(2, sortedTabs[i], sortedTabs[j]) > 0
  /\ \E i \in DOMAIN sortedTabs : \E j \in DOMAIN sortedTabs :
       /\ i < j
       /\ FirstUntied(2, sortedTabs[i], sortedTabs[j])
       /\ sortedTabs[j].index < sortedTabs[i].index

(***************************************************************************)
(* Properties of the direction of a key.                                   *)
(***************************************************************************)
Reversed(s) == [i \in 1..Len(s) |-> s[Len(s) + 1 - i]]

\* every tab has a value under the key, and no two tabs have the same one
PresentAndDistinct ==
  /\ \A i \in DOMAIN tabsWithValues : Parsed(tabsWithValues[i], sortKeys[1]) # NullVal
  /\ \A i \in DOMAIN tabsWithValues : \A j \in DOMAIN tabsWithValues :
       i # j => Parsed(tabsWithValues[i], sortKeys[1]) # Parsed(tabsWithValues[j], sortKeys[1])

\* C31: for one key and tabs whose parsed values are all present and pairwise
\* distinct, the order under 'desc' is the exact reverse of the order under 'asc'
C31_DescReversesAsc ==
  (op = "reverse" /\ pc = "done" /\ previous # <<>> /\ PresentAndDistinct)
    => sortedTabs = Reversed(previous)

\* C31 for tabs no two of which the key ties (used to locate the divergence)
C31_UntiedDescReversesAsc ==
  (/\ op = "reverse" /\ pc = "done" /\ previous # <<>>
   /\ \A i \in DOMAIN tabsWithValues : Parsed(tabsWithValues[i], sortKeys[1]) # NullVal
   /\ \A i \in DOMAIN tabsWithValues : \A j \in DOMAIN tabsWithValues :
        i # j => ~TiedOn(sortKeys[1], tabsWithValues[i], tabsWithValues[j]))
    => sortedTabs = Reversed(previous)

(***************************************************************************)
(* Properties of the comparator as an order.                               *)
(***************************************************************************)
Cmp(a, b) == createComparator(sortKeys, missingValuePolicy, dateLegacy, a, b)

\* C32: the comparator is antisymmetric and transitive over tabs with distinct
\* indices, and stableSort yields the same order whatever the order in which
\* the same tabs are handed to it
C32_ComparatorIsAnOrder ==
  /\ (op = "permute" /\ pc = "sorting" /\ previous = <<>>) =>
       /\ \A a \in Range(tabsWithValues) : \A b \in Range(tabsWithValues) :
            Sign(Cmp(a, b)) = -Sign(Cmp(b, a))
       /\ \A a \in Range(tabsWithValues) : \A b \in Range(tabsWithValues) :
            \A c \in Range(tabsWithValues) :
              (Cmp(a, b) < 0 /\ Cmp(b, c) < 0) => Cmp(a, c) < 0
  /\ (op = "permute" /\ pc = "done" /\ previous # <<>>) => sortedTabs = previous

\* three tabs handed over in another order than that of their indices, two
\* keys, a missing value, two
\* tabs that tie on every key, and a sorted order that is neither the order
\* handed over nor the order of the indices
C32_Witness ==
  /\ op = "permute"
  /\ pc = "done"
  /\ previous # <<>>
  /\ Len(sortKeys) = 2
  /\ Len(tabsWithValues) = 3
  /\ \E i \in DOMAIN tabs : tabs[i].index # i - 1
  /\ \E i \in DOMAIN tabsWithValues : tabsWithValues[i].extractedValue.isNull
  /\ \E i \in DOMAIN tabsWithValues : \E j \in DOMAIN tabsWithValues :
       i # j /\ FullyTied(tabsWithValues[i], tabsWithValues[j])
  /\ sortedTabs # tabsWithValues
  /\ \E i \in DOMAIN sortedTabs : sortedTabs[i].index # i - 1

(***************************************************************************)
(* Properties of a preview and the sort that applies it.                   *)
(***************************************************************************)
\* the sort that follows the preview has the snapshot and the values the
\* preview had, and has computed its order
SortedAsPreviewed ==
  /\ op = "sort"
  /\ previous # <<>>
  /\ pc \in {"moving", "done", "answered"}
  /\ tabs = previous[1].snapshot
  /\ extractedValues = previous[1].values

C34_TargetsBehindPinnedRange ==
  (op = "sort" /\ keepPinnedStatic) =>
    \A i \in DOMAIN moves : moves[i].index >= PinnedCount

\* C36: after a move of moveTabs has failed, each later tab of the sorted order
\* is still moved, to the start index plus its rank: the failure does not shift
\* the target indices of the tabs after it
C36_LaterTargetsUnshifted ==
  (op = "sort" /\ pc = "done" /\ SomeMoveFailed) =>
    LET plan == MoveList(sortedTabs, keepPinnedStatic)
        start == FirstTargetIndex(sortedTabs, keepPinnedStatic)
    IN \A r \in DOMAIN plan :
         (\E k \in DOMAIN moves : k < r /\ ~moves[k].ok) =>
           \E m \in DOMAIN moves : moves[m].tabId = plan[r] /\ moves[m].index = start + r - 1

(***************************************************************************)
(* Properties of a request with several keys.                              *)
(***************************************************************************)
Previewed == op = "preview" /\ pc \in {"done", "answered"} /\ sortedTabs # <<>>

C37_ReturnedIsPermutation ==
  (op \in {"sort", "preview"} /\ result.status = "resolved") =>
    /\ Len(result.tabs) = Len(tabs)
    /\ \A i \in DOMAIN tabs : \E j \in DOMAIN result.tabs : result.tabs[j] = tabs[i].id
    /\ \A i \in DOMAIN result.tabs : \A j \in DOMAIN result.tabs :
         i # j => result.tabs[i] # result.tabs[j]

\* a sort that returned two collected tabs, one of them without a value, in
\* another order than collected, while the window holds an uncollected tab
C37_Witness ==
  /\ op = "sort" /\ pc = "answered" /\ result.status = "resolved"
  /\ Len(tabs) = 2
  /\ Len(strip) = 3
  /\ result.tabs # Ids(tabs)
  /\ \E i \in DOMAIN extractedValues : extractedValues[i].value.isNull

(***************************************************************************)
(* Properties of the settings storage.                                     *)
(***************************************************************************)
\* both calls of saveSettings have resolved, and they were given different keys
BothSaved ==
  /\ op = "settings"
  /\ \A c \in Callers : savers[c].pc = "saved"
  /\ DOMAIN savers[1].settings \cap DOMAIN savers[2].settings = {}

\* C38: after two calls of saveSettings with partial settings on different
\* keys, overlapping or not, the stored settings hold both updates
C38_NoLostSettingsUpdate ==
  BothSaved =>
    \A c \in Callers : \A k \in DOMAIN savers[c].settings :
      k \in DOMAIN stored /\ stored[k] = savers[c].settings[k]

\* C39: every per-tab promise of extractValuesFromTabs is fulfilled, never rejected,
\* no later than the per-tab timeout after the launch; so when the timers fire in
\* deadline order the batch ends by allSettled, the global timer never fires and no
\* tab carries the global-timeout diagnostic
C39_TabsSettleBeforeGlobalTimer ==
  /\ \A i \in DOMAIN promises : promises[i].state \in {"pending", "fulfilled"}
  /\ clock.inOrder =>
       /\ (\E i \in DOMAIN promises : promises[i].state = "pending") => clock.now <= TAB_EXTRACTION
       /\ batchEnd # "globalTimeout"
       /\ \A i \in DOMAIN extractedValues : extractedValues[i].notes # GlobalTimeoutNote

\* timers on time: the deadline of the tab timers has come, a tab's timer has fired
\* and the batch has ended by allSettled
C39_Witness ==
  /\ clock.inOrder
  /\ clock.now = TAB_EXTRACTION
  /\ batchEnd = "allSettled"
  /\ Len(promises) >= 2
  /\ \E i \in DOMAIN promises : promises[i].by = "timer"
  /\ \E i \in DOMAIN promises : promises[i].by = "extraction"

\* the positions of the tabs whose reload is in the given state
ReloadsIn(state) == {k \in DOMAIN reloads.reload : reloads.reload[k] = state}

\* the number of the batch that position k belongs to
BatchNumber(k) == (k - 1) \div TAB_LOAD_BATCH_SIZE

\* C40: handleLoadUnloadedTabs never has more than LIMITS.TAB_LOAD_BATCH_SIZE (3)
\* reloads in flight; a reload is in flight only when every reload of the earlier
\* batches has settled; a failed reload stops neither the rest of its batch nor the
\* later batches: at the return every unloaded tab has been reloaded or noted failed
C40_ReloadsInBatchesOfThree ==
  /\ Cardinality(ReloadsIn("inFlight")) <= TAB_LOAD_BATCH_SIZE
  /\ \A k \in ReloadsIn("inFlight") : \A j \in DOMAIN reloads.reload :
       BatchNumber(j) < BatchNumber(k) => reloads.reload[j] \in {"loaded", "failed"}
  /\ reloads.pc = "returned" =>
       /\ \A k \in DOMAIN reloads.reload : reloads.reload[k] \in {"loaded", "failed"}
       /\ reloads.loadedCount = Cardinality(ReloadsIn("loaded"))
       /\ Len(reloads.errors) = Cardinality(ReloadsIn("failed"))

\* the handler has returned from more than two batches, in which the first reload
\* failed and reloads of the same and of the later batches succeeded
C40_Witness ==
  /\ reloads.pc = "returned"
  /\ Len(reloads.unloadedTabIds) > 2 * TAB_LOAD_BATCH_SIZE
  /\ reloads.reload[1] = "failed"
  /\ reloads.reload[2] = "loaded"
  /\ reloads.reload[TAB_LOAD_BATCH_SIZE + 1] = "loaded"
  /\ reloads.reload[2 * TAB_LOAD_BATCH_SIZE + 1] = "loaded"

====
